---- MODULE Spec2Model ----
(***************************************************************************)
(* Verification model of the Markdown -> WeChat HTML converter             *)
(* (src/src/html_convert.py).                                              *)
(*                                                                         *)
(* Text is modelled as a sequence of characters, each character a          *)
(* one-character string; the regular expressions and scanners of the       *)
(* source are translated character by character.                           *)
(***************************************************************************)
EXTENDS Integers, Sequences, FiniteSets, TLC

VARIABLES
    pc,          \* position of the call under way
    md,          \* list rewriter: the Markdown list structure and the theme's list styles
    html,        \* list rewriter: the inlined fragment handed to _inject_list_prefixes
    result,      \* list rewriter: the fragment _inject_list_prefixes returns
    declsIn,     \* tokenizer: the declarations the block is written from
    blockIn,     \* tokenizer: the block handed to _parse_css_declarations
    table,       \* tokenizer: the dict it returns (its pairs in insertion order)
    sheet,       \* resolver: the :root blocks and the rule the document is written from
    cssDoc,      \* resolver: the document handed to resolve_css_variables
    varTable,    \* resolver: the local dict `variables`
    passes,      \* resolver: the resolution passes run so far
    changed,     \* resolver: the flag `changed` of the last pass
    resolvedCss, \* resolver: the document it returns
    themeCss,    \* publish: the theme CSS _get_theme_css returns
    fragment,    \* publish: the argument `html` of apply_theme_for_publish
    pseudoCss,   \* publish: the local `pseudo_css`
    fullHtml,    \* publish: the document handed to the inliner
    inlined,     \* publish: the document the inliner returns
    published,   \* publish: the fragment apply_theme_for_publish returns
    themesDir,   \* theme store: the *.css files of THEMES_DIR (stem -> text)
    themeCache,  \* theme store: the module-level dict _theme_cache
    themeId,     \* theme store: the theme_id a reader asked for
    loading,     \* theme store: a load_themes call is between clear() and its end
    pending,     \* theme store: the files that call has still to read
    oldCache,    \* theme store: _theme_cache as it was when that call began
    seenCache,   \* theme store: _theme_cache as the reader's lookup found it
    listed,      \* theme store: the list list_themes returns
    wechatApi,   \* publishing: the global wechat_api is set (main.py 34, 58-63)
    articles,    \* publishing: the rows of the table `articles` (id -> columns)
    clock,       \* publishing: datetime.now()
    drafts,      \* publishing: the drafts created in the WeChat draft box
    callers      \* publishing: the running publish_article calls

listVars == <<md, html, result>>
tokVars == <<declsIn, blockIn, table>>
resVars == <<sheet, cssDoc, varTable, passes, changed, resolvedCss>>
pubVars == <<themeCss, fragment, pseudoCss, fullHtml, inlined, published>>
cacheVars ==
    <<themesDir, themeCache, themeId, loading, pending, oldCache, seenCache, listed>>
artVars == <<wechatApi, articles, clock, drafts, callers>>
vars == <<pc, listVars, tokVars, resVars, pubVars, cacheVars, artVars>>

(***************************************************************************)
(* Bounds of the model.                                                    *)
(***************************************************************************)
MaxItems == 2
MaxAtoms == 2
\* Chains of up to MaxPermuted variables are taken in every declaration order,
\* longer ones, up to MaxChain variables, in declaration and in reverse order.
MaxPermuted == 6
MaxChain == 8
\* The variables of a :root block filled with arbitrary references.
MaxVars == 2

(***************************************************************************)
(* Characters and literals.                                                *)
(***************************************************************************)
\* U+2022, the bullet character of the source (one character).
BULLET == "U+2022"

LT_UL == <<"<", "u", "l">>
LT_OL == <<"<", "o", "l">>
LT_LI == <<"<", "l", "i">>
CLOSE_UL == <<"<", "/", "u", "l", ">">>
CLOSE_OL == <<"<", "/", "o", "l", ">">>
CLOSE_LI == <<"<", "/", "l", "i", ">">>
LIST_STYLE == <<"l", "i", "s", "t", "-", "s", "t", "y", "l", "e">>
STYLE_EQ == <<"s", "t", "y", "l", "e", "=", "\"">>
STYLE_EQ_NONE == <<"s", "t", "y", "l", "e", "=", "\"", "l", "i", "s", "t", "-", "s", "t", "y", "l", "e", ":", "n", "o", "n", "e", ";">>
GT_STYLE_NONE == <<" ", "s", "t", "y", "l", "e", "=", "\"", "l", "i", "s", "t", "-", "s", "t", "y", "l", "e", ":", "n", "o", "n", "e", ";", "\"", ">">>
LIST_STYLE_NONE == <<"l", "i", "s", "t", "-", "s", "t", "y", "l", "e", ":", "n", "o", "n", "e">>

(***************************************************************************)
(* String primitives (str.find, str.replace, slicing).                     *)
(***************************************************************************)
Min(S) == CHOOSE m \in S : \A n \in S : m <= n

\* p occurs in s at position i (1-based).
MatchAt(p, s, i) ==
    /\ i >= 1
    /\ i + Len(p) - 1 <= Len(s)
    /\ \A k \in 1..Len(p) : s[i + k - 1] = p[k]

\* Leftmost occurrence of p in s at or after position i; 0 when there is none.
Find(p, s, i) ==
    LET c == {j \in i..(Len(s) - Len(p) + 1) : MatchAt(p, s, j)}
    IN IF c = {} THEN 0 ELSE Min(c)

\* Leftmost position at or after i of a character of the class C; 0 when none.
FindChar(C, s, i) ==
    LET c == {j \in i..Len(s) : s[j] \in C}
    IN IF c = {} THEN 0 ELSE Min(c)

Contains(p, s) == Find(p, s, 1) # 0

Tail_(s, i) == SubSeq(s, i, Len(s))

\* s.replace(old, new): every non-overlapping occurrence, left to right.
RECURSIVE ReplaceFrom(_, _, _, _)
ReplaceFrom(old, new, s, i) ==
    LET p == Find(old, s, i)
    IN IF p = 0 THEN Tail_(s, i)
       ELSE SubSeq(s, i, p - 1) \o new \o ReplaceFrom(old, new, s, p + Len(old))

ReplaceAll(old, new, s) == ReplaceFrom(old, new, s, 1)

\* s.replace(old, new, 1): the first occurrence only.
ReplaceFirst(old, new, s) ==
    LET p == Find(old, s, 1)
    IN IF p = 0 THEN s
       ELSE SubSeq(s, 1, p - 1) \o new \o Tail_(s, p + Len(old))

\* str(n) of a positive integer.
DIGITS == <<"0", "1", "2", "3", "4", "5", "6", "7", "8", "9">>
RECURSIVE Str(_)
Str(n) == IF n < 10 THEN <<DIGITS[n + 1]>> ELSE Str(n \div 10) \o <<DIGITS[(n % 10) + 1]>>

(***************************************************************************)
(* _inject_list_prefixes (html_convert.py 257-308).                        *)
(***************************************************************************)
\* re.sub(r'list-style[^;"]*:[^;"]*;?', '', tag) from position i on: a match is
\* "list-style", the run of characters other than ; and " that follows it when
\* that run holds a colon, and one ; after the run when there is one.
RECURSIVE StripListStyleFrom(_, _)
StripListStyleFrom(tag, i) ==
    LET p == Find(LIST_STYLE, tag, i)
    IN IF p = 0 THEN Tail_(tag, i)
       ELSE LET a == p + Len(LIST_STYLE)
                stop == FindChar({";", "\""}, tag, a)
                runEnd == IF stop = 0 THEN Len(tag) ELSE stop - 1
                hasColon == \E k \in a..runEnd : tag[k] = ":"
                e == IF stop # 0 /\ tag[stop] = ";" THEN stop ELSE runEnd
            IN IF hasColon
               THEN SubSeq(tag, i, p - 1) \o StripListStyleFrom(tag, e + 1)
               ELSE SubSeq(tag, i, p) \o StripListStyleFrom(tag, p + 1)

\* Lines 271-275 and 292-296: strip the list-style declarations of the open
\* tag, then put list-style:none into its style attribute, or give it one.
ForceListStyleNone(tag) ==
    LET t == StripListStyleFrom(tag, 1)
    IN IF Contains(STYLE_EQ, t)
       THEN ReplaceAll(STYLE_EQ, STYLE_EQ_NONE, t)
       ELSE ReplaceFirst(<<">">>, GT_STYLE_NONE, t)

\* add_number (299-301) and the bullet replacement r'\1• ' (278-282): the text
\* put after the n-th <li ...> open tag of a list body.
ItemPrefix(ordered, n) ==
    IF ordered THEN Str(n) \o <<".", " ">> ELSE <<BULLET, " ">>

\* re.sub(r'(<li[^>]*>)', ..., body) from position i on, counter[0] = n so far.
RECURSIVE SubLi(_, _, _, _)
SubLi(body, i, ordered, n) ==
    LET p == Find(LT_LI, body, i)
        e == IF p = 0 THEN 0 ELSE FindChar({">"}, body, p + Len(LT_LI))
    IN IF e = 0 THEN Tail_(body, i)
       ELSE SubSeq(body, i, e) \o ItemPrefix(ordered, n + 1)
                \o SubLi(body, e + 1, ordered, n + 1)

replace_ul(ul_tag, ul_body, ul_close) ==
    ForceListStyleNone(ul_tag) \o SubLi(ul_body, 1, FALSE, 0) \o ul_close

replace_ol(ol_tag, ol_body, ol_close) ==
    ForceListStyleNone(ol_tag) \o SubLi(ol_body, 1, TRUE, 0) \o ol_close

\* re.sub(r'(<ul[^>]*>)(.*?)(</ul>)', replace_ul, s, flags=re.DOTALL) from
\* position i on (and the same for ol): the open tag runs to the first '>',
\* the lazy body to the first close tag after it; the scan goes on after the
\* close tag and never rescans the replaced text.
RECURSIVE SubList(_, _, _)
SubList(s, i, ordered) ==
    LET open == IF ordered THEN LT_OL ELSE LT_UL
        close == IF ordered THEN CLOSE_OL ELSE CLOSE_UL
        p == Find(open, s, i)
        t == IF p = 0 THEN 0 ELSE FindChar({">"}, s, p + Len(open))
        c == IF t = 0 THEN 0 ELSE Find(close, s, t + 1)
    IN IF c = 0 THEN Tail_(s, i)
       ELSE LET tag == SubSeq(s, p, t)
                body == SubSeq(s, t + 1, c - 1)
            IN SubSeq(s, i, p - 1)
                 \o (IF ordered THEN replace_ol(tag, body, close)
                                ELSE replace_ul(tag, body, close))
                 \o SubList(s, c + Len(close), ordered)

_inject_list_prefixes(h) == SubList(SubList(h, 1, FALSE), 1, TRUE)

(***************************************************************************)
(* The input of the list rewriter: what markdown_to_html and the inliner   *)
(* of apply_theme_for_publish hand to _inject_list_prefixes.               *)
(***************************************************************************)
\* The style attribute the inliner wrote on a <ul>/<ol> open tag: none at all
\* (a fragment that was not inlined), the base rule of list_base_css, or a
\* theme rule that sets a native marker.
LIST_ATTR_BASE == <<" ", "s", "t", "y", "l", "e", "=", "\"", "l", "i", "s", "t", "-", "s", "t", "y", "l", "e", ":", " ", "n", "o", "n", "e", ";", "m", "a", "r", "g", "i", "n", ":", " ", "1", "e", "m", " ", "0", ";", "\"">>
LIST_ATTR_THEME == <<" ", "s", "t", "y", "l", "e", "=", "\"", "m", "a", "r", "g", "i", "n", ":", " ", "1", "e", "m", " ", "0", ";", "l", "i", "s", "t", "-", "s", "t", "y", "l", "e", "-", "t", "y", "p", "e", ":", " ", "d", "i", "s", "c", "\"">>
LI_ATTR_BASE == <<" ", "s", "t", "y", "l", "e", "=", "\"", "m", "a", "r", "g", "i", "n", ":", " ", "0", ".", "5", "e", "m", " ", "0", ";", "\"">>
LI_ATTR_THEME == <<" ", "s", "t", "y", "l", "e", "=", "\"", "l", "i", "s", "t", "-", "s", "t", "y", "l", "e", "-", "t", "y", "p", "e", ":", " ", "s", "q", "u", "a", "r", "e", ";", "\"">>

ListStyles == {"plain", "base", "theme"}
LiStyles == {"base", "theme"}

ListAttr(st) ==
    CASE st = "plain" -> <<>>
      [] st = "base" -> LIST_ATTR_BASE
      [] st = "theme" -> LIST_ATTR_THEME

LiAttr(st) == IF st = "theme" THEN LI_ATTR_THEME ELSE LI_ATTR_BASE

Kinds == {"ul", "ol"}

\* A list without nested lists, of n items.
LeafList(k, n) == [kind |-> k, items |-> [i \in 1..n |-> [sub |-> <<>>]]]
LeafLists == {LeafList(k, n) : k \in Kinds, n \in 1..MaxItems}

\* A list of n items whose item at position pos holds the nested list l.
NestedList(k, n, pos, l) ==
    [kind |-> k,
     items |-> [i \in 1..n |-> [sub |-> IF i = pos THEN <<l>> ELSE <<>>]]]
NestedLists ==
    {NestedList(k, n, pos, l) :
        k \in Kinds, n \in 1..MaxItems, pos \in 1..MaxItems, l \in LeafLists}

\* One list, possibly with a nested list, or two sibling lists.
ListSeqs ==
    {<<l>> : l \in LeafLists \cup {l \in NestedLists :
                \E i \in 1..Len(l.items) : l.items[i].sub # <<>>}}
      \cup {<<l1, l2>> : l1 \in LeafLists, l2 \in LeafLists}

\* The Markdown documents of the model, each with the styles the theme gives
\* to every <ul>, every <ol> and every <li>.
Docs ==
    {[lists |-> ls, ul |-> u, ol |-> o, li |-> i] :
        ls \in ListSeqs, u \in ListStyles, o \in ListStyles, i \in LiStyles}

RECURSIVE Concat(_)
Concat(ss) == IF ss = <<>> THEN <<>> ELSE Head(ss) \o Concat(Tail(ss))

OpenTag(k, d) ==
    (IF k = "ul" THEN LT_UL ELSE LT_OL)
        \o ListAttr(IF k = "ul" THEN d.ul ELSE d.ol) \o <<">">>
CloseTag(k) == IF k = "ul" THEN CLOSE_UL ELSE CLOSE_OL

\* markdown.markdown renders an item as <li>text[nested list]</li>; the
\* inliner adds the theme's style attributes.
RenderLeaf(l, d) ==
    OpenTag(l.kind, d)
        \o Concat([i \in 1..Len(l.items) |->
                      LT_LI \o LiAttr(d.li) \o <<">", "x">> \o CLOSE_LI])
        \o CloseTag(l.kind)

RenderList(l, d) ==
    OpenTag(l.kind, d)
        \o Concat([i \in 1..Len(l.items) |->
                      LT_LI \o LiAttr(d.li) \o <<">", "x">>
                        \o (IF l.items[i].sub = <<>> THEN <<>>
                            ELSE RenderLeaf(l.items[i].sub[1], d))
                        \o CLOSE_LI])
        \o CloseTag(l.kind)

RenderDoc(d) == Concat([i \in 1..Len(d.lists) |-> RenderList(d.lists[i], d)])

(***************************************************************************)
(* The list rewriter as a state machine: one publish-mode conversion,      *)
(* markdown_to_wechat_html (311-320), of a document. Conversions are pure  *)
(* and independent, so a behaviour holds one call.                         *)
(***************************************************************************)
ListsIdle ==
    /\ md = [lists |-> <<>>, ul |-> "plain", ol |-> "plain", li |-> "base"]
    /\ html = <<>>
    /\ result = <<>>

TokIdle ==
    /\ declsIn = <<>>
    /\ blockIn = <<>>
    /\ table = <<>>

ResIdle ==
    /\ sheet = [family |-> "none", n |-> 0, blocks |-> <<>>, use |-> <<>>]
    /\ cssDoc = <<>>
    /\ varTable = <<>>
    /\ passes = 0
    /\ changed = FALSE
    /\ resolvedCss = <<>>

PubIdle ==
    /\ themeCss = <<>>
    /\ fragment = <<>>
    /\ pseudoCss = <<>>
    /\ fullHtml = <<>>
    /\ inlined = <<>>
    /\ published = <<>>

CacheIdle ==
    /\ themesDir = <<>>
    /\ themeCache = <<>>
    /\ themeId = ""
    /\ loading = FALSE
    /\ pending = <<>>
    /\ oldCache = <<>>
    /\ seenCache = <<>>
    /\ listed = <<>>

ArtIdle ==
    /\ wechatApi = FALSE
    /\ articles = <<>>
    /\ clock = 0
    /\ drafts = {}
    /\ callers = <<>>

InitLists ==
    /\ pc = "idle"
    /\ ListsIdle
    /\ TokIdle
    /\ ResIdle
    /\ PubIdle
    /\ CacheIdle
    /\ ArtIdle

MarkdownToWechatHtml ==
    /\ pc = "idle"
    /\ \E d \in Docs :
        /\ md' = d
        /\ html' = RenderDoc(d)
        /\ result' = _inject_list_prefixes(RenderDoc(d))
        /\ pc' = "converted"
        /\ UNCHANGED <<tokVars, resVars, pubVars, cacheVars, artVars>>

NextLists == MarkdownToWechatHtml

SpecLists == InitLists /\ [][NextLists]_vars

(***************************************************************************)
(* Reading a fragment back: its text content and its open tags.            *)
(***************************************************************************)
\* The text content of a fragment: everything outside the tags.
RECURSIVE TextFrom(_, _)
TextFrom(s, i) ==
    IF i > Len(s) THEN <<>>
    ELSE IF s[i] = "<"
         THEN LET e == FindChar({">"}, s, i)
              IN IF e = 0 THEN <<>> ELSE TextFrom(s, e + 1)
         ELSE <<s[i]>> \o TextFrom(s, i + 1)

TextOf(s) == TextFrom(s, 1)

\* The open tags of a fragment that start with the given text.
TagsOf(s, open) ==
    {SubSeq(s, p, FindChar({">"}, s, p)) :
        p \in {q \in 1..Len(s) : MatchAt(open, s, q) /\ FindChar({">"}, s, q) # 0}}

Count(p, s) == Cardinality({j \in 1..Len(s) : MatchAt(p, s, j)})

\* The value of the declaration whose property name starts at position p of a
\* tag: the text after the colon up to the next ; or ", without blanks.
DeclValue(tag, p) ==
    LET c == FindChar({":"}, tag, p)
        stop == FindChar({";", "\""}, tag, c + 1)
        e == IF stop = 0 THEN Len(tag) ELSE stop - 1
    IN IF c = 0 THEN <<>> ELSE SelectSeq(SubSeq(tag, c + 1, e), LAMBDA ch : ch # " ")

LIST_STYLE_TYPE == <<"l", "i", "s", "t", "-", "s", "t", "y", "l", "e", "-", "t", "y", "p", "e">>
NONE == <<"n", "o", "n", "e">>

\* The literal prefixes the list rewriter is specified to produce: every list
\* counts its own items from 1.
OrdinalPrefix(k, i) == IF k = "ol" THEN Str(i) \o <<".", " ">> ELSE <<BULLET, " ">>

ExpectedLeafText(l) ==
    Concat([i \in 1..Len(l.items) |-> OrdinalPrefix(l.kind, i) \o <<"x">>])

ExpectedListText(l) ==
    Concat([i \in 1..Len(l.items) |->
               OrdinalPrefix(l.kind, i) \o <<"x">>
                 \o (IF l.items[i].sub = <<>> THEN <<>>
                     ELSE ExpectedLeafText(l.items[i].sub[1]))])

ExpectedText(d) == Concat([i \in 1..Len(d.lists) |-> ExpectedListText(d.lists[i])])

\* Every list of the document, nested ones included, is an ordered list.
OnlyOrdered(d) ==
    \A i \in 1..Len(d.lists) :
        /\ d.lists[i].kind = "ol"
        /\ \A j \in 1..Len(d.lists[i].items) :
              \A k \in 1..Len(d.lists[i].items[j].sub) :
                  d.lists[i].items[j].sub[k].kind = "ol"

(***************************************************************************)
(* Claims about the list rewriter.                                         *)
(***************************************************************************)
\* C1: after _inject_list_prefixes the ordinal prefixes of ordered-list items
\* are counted per list: sibling ordered lists each start at "1. ", a nested
\* ordered list numbers its own items from "1. ", and every item of the parent
\* list, also after the nested list, carries the next number of the parent.
C1_OrdinalsPerList ==
    (pc = "converted" /\ OnlyOrdered(md)) => TextOf(result) = ExpectedText(md)

\* C2: after publish-mode conversion every <ul> and <ol> open tag, nested ones
\* included, carries a style attribute with list-style:none and no other
\* list-style declaration, and no <li> carries a list-style-type other than
\* none.
ListTagForced(tag) ==
    /\ Contains(STYLE_EQ, tag)
    /\ Contains(LIST_STYLE_NONE, tag)
    /\ Count(LIST_STYLE, tag) = 1

LiTagQuiet(tag) ==
    \A p \in 1..Len(tag) :
        MatchAt(LIST_STYLE_TYPE, tag, p) => DeclValue(tag, p) = NONE

C2_NoNativeListStyle ==
    pc = "converted" =>
        /\ \A tag \in TagsOf(result, LT_UL) \cup TagsOf(result, LT_OL) :
              ListTagForced(tag)
        /\ \A tag \in TagsOf(result, LT_LI) : LiTagQuiet(tag)

\* No list of the document is nested in a list of its own kind.
NoSameKindNesting(d) ==
    \A i \in 1..Len(d.lists) :
        \A j \in 1..Len(d.lists[i].items) :
            \A k \in 1..Len(d.lists[i].items[j].sub) :
                d.lists[i].items[j].sub[k].kind # d.lists[i].kind

\* A text with every run of digits written as one "#".
RECURSIVE ShapeFrom(_, _)
ShapeFrom(s, i) ==
    IF i > Len(s) THEN <<>>
    ELSE IF s[i] \in {DIGITS[k] : k \in 1..10}
         THEN (IF i > 1 /\ s[i - 1] \in {DIGITS[k] : k \in 1..10} THEN <<>> ELSE <<"#">>)
              \o ShapeFrom(s, i + 1)
         ELSE <<s[i]>> \o ShapeFrom(s, i + 1)

Shape(s) == ShapeFrom(s, 1)

\* C15: after _inject_list_prefixes every list item carries exactly one
\* prefix, that of its own list: a bullet in a <ul>, an ordinal in an <ol>;
\* an item of a list nested in a list of the other kind carries no prefix of
\* the outer list.
C15_OnePrefixOfOwnList ==
    (pc = "converted" /\ NoSameKindNesting(md)) =>
        Shape(TextOf(result)) = Shape(ExpectedText(md))

(***************************************************************************)
(* _parse_css_declarations (html_convert.py 58-124).                       *)
(***************************************************************************)
WHITESPACE == {" ", "\t", "\n", "\r"}
COMMENT_OPEN == <<"/", "*">>
COMMENT_CLOSE == <<"*", "/">>
DASHES == <<"-", "-">>

\* str.strip(): s without its leading and trailing whitespace.
Strip(s) ==
    LET keep == {k \in 1..Len(s) : s[k] \notin WHITESPACE}
    IN IF keep = {} THEN <<>>
       ELSE SubSeq(s, Min(keep), CHOOSE m \in keep : \A n \in keep : n <= m)

\* A dict as the sequence of its (key, value) pairs in insertion order.
Keys(d) == {d[k][1] : k \in 1..Len(d)}
Get(d, key, default) ==
    IF key \in Keys(d) THEN d[CHOOSE k \in 1..Len(d) : d[k][1] = key][2] ELSE default
\* d[key] = value: an existing key keeps its place, a new one goes last.
Put(d, key, value) ==
    IF key \in Keys(d)
    THEN [k \in 1..Len(d) |-> IF d[k][1] = key THEN <<key, value>> ELSE d[k]]
    ELSE Append(d, <<key, value>>)

\* Lines 70-71: skip whitespace from position i on.
SkipWhitespace(block, i) ==
    LET c == {j \in i..Len(block) : block[j] \notin WHITESPACE}
    IN IF c = {} THEN Len(block) + 1 ELSE Min(c)

\* A tokenizer that ends a value at a ';' inside parentheses too.
EndsValue_IgnoringParens(ch, paren_depth) == ch = ";"

\* Line 115: the character that ends a value, outside quotes.
EndsValue(ch, paren_depth) == ch = ";" /\ paren_depth = 0

\* The value scan without lines 97-99: a backslash is an ordinary character.
RECURSIVE ScanValue_NoEscape(_, _, _, _, _)
ScanValue_NoEscape(block, j, in_single_quote, in_double_quote, paren_depth) ==
    IF j > Len(block) THEN j
    ELSE LET ch == block[j]
         IN IF in_single_quote
            THEN ScanValue_NoEscape(block, j + 1, ch # "'", in_double_quote, paren_depth)
            ELSE IF in_double_quote
            THEN ScanValue_NoEscape(block, j + 1, in_single_quote, ch # "\"", paren_depth)
            ELSE IF ch = "'"
            THEN ScanValue_NoEscape(block, j + 1, TRUE, in_double_quote, paren_depth)
            ELSE IF ch = "\""
            THEN ScanValue_NoEscape(block, j + 1, in_single_quote, TRUE, paren_depth)
            ELSE IF ch = "("
            THEN ScanValue_NoEscape(block, j + 1, in_single_quote, in_double_quote,
                                    paren_depth + 1)
            ELSE IF ch = ")"
            THEN ScanValue_NoEscape(block, j + 1, in_single_quote, in_double_quote,
                                    IF paren_depth > 0 THEN paren_depth - 1 ELSE 0)
            ELSE IF EndsValue(ch, paren_depth)
            THEN j
            ELSE ScanValue_NoEscape(block, j + 1, in_single_quote, in_double_quote,
                                    paren_depth)

\* Lines 95-117: the value scan from position j on; the position it stops at
\* (that of the terminating ';', or one past the end of the block).
RECURSIVE ScanValue(_, _, _, _, _)
ScanValue(block, j, in_single_quote, in_double_quote, paren_depth) ==
    IF j > Len(block) THEN j
    ELSE LET ch == block[j]
         IN IF ch = "\\"
            THEN ScanValue(block, j + 2, in_single_quote, in_double_quote, paren_depth)
            ELSE IF in_single_quote
            THEN ScanValue(block, j + 1, ch # "'", in_double_quote, paren_depth)
            ELSE IF in_double_quote
            THEN ScanValue(block, j + 1, in_single_quote, ch # "\"", paren_depth)
            ELSE IF ch = "'"
            THEN ScanValue(block, j + 1, TRUE, in_double_quote, paren_depth)
            ELSE IF ch = "\""
            THEN ScanValue(block, j + 1, in_single_quote, TRUE, paren_depth)
            ELSE IF ch = "("
            THEN ScanValue(block, j + 1, in_single_quote, in_double_quote, paren_depth + 1)
            ELSE IF ch = ")"
            THEN ScanValue(block, j + 1, in_single_quote, in_double_quote,
                           IF paren_depth > 0 THEN paren_depth - 1 ELSE 0)
            ELSE IF EndsValue(ch, paren_depth)
            THEN j
            ELSE ScanValue(block, j + 1, in_single_quote, in_double_quote, paren_depth)

\* Line 120: the declarations the tokenizer keeps.
IsRetained(prop_name) == MatchAt(DASHES, prop_name, 1)

\* Lines 68-122: the outer loop from position i on, `variables` so far.
RECURSIVE ParseFrom(_, _, _)
ParseFrom(block, i0, variables) ==
    LET i == SkipWhitespace(block, i0)
    IN IF i > Len(block) THEN variables
       ELSE IF MatchAt(COMMENT_OPEN, block, i)
       THEN LET end == Find(COMMENT_CLOSE, block, i + 2)
            IN ParseFrom(block, IF end # 0 THEN end + 2 ELSE Len(block) + 1, variables)
       ELSE LET colon == FindChar({":"}, block, i)
            IN IF colon = 0 THEN variables
               ELSE LET prop_name == Strip(SubSeq(block, i, colon - 1))
                        j == ScanValue(block, colon + 1, FALSE, FALSE, 0)
                        value == Strip(SubSeq(block, colon + 1,
                                              IF j > Len(block) THEN Len(block) ELSE j - 1))
                    IN ParseFrom(block, j + 1,
                                 IF IsRetained(prop_name)
                                 THEN Put(variables, prop_name, value)
                                 ELSE variables)

_parse_css_declarations(block) == ParseFrom(block, 1, <<>>)

(***************************************************************************)
(* The tokenizer as a state machine: one call of _parse_css_declarations   *)
(* on a block written from a list of declarations.                         *)
(***************************************************************************)
\* The pieces a value is written from. Each is complete in itself: its quotes
\* are closed and its parentheses matched (or, for the lone ')', harmless), so
\* every ';' inside a piece lies inside quotes or parentheses.
ATOM_URL == <<"u", "r", "l", "(", "\"", "a", ";", "b", "\"", ")">>
PlainAtoms ==
    { <<"a">>, <<" ">>,
      <<"\"", ";", "\"">>, <<"'", ";", "'">>, <<"(", ";", ")">>,
      <<"\"", "(", "\"">>, <<"'", "\"", "'">>, <<")">>,
      ATOM_URL }

\* Pieces with a backslash escape: "\";" and '\';' (an escaped quote in a
\* string that holds a ';'), and \; \" \( outside any string.
ATOM_ESCAPED_QUOTE == <<"\"", "\\", "\"", ";", "\"">>
EscapeAtoms ==
    { ATOM_ESCAPED_QUOTE, <<"'", "\\", "'", ";", "'">>,
      <<"\\", ";">>, <<"\\", "\"">>, <<"\\", "(">> }

Atoms == PlainAtoms \cup EscapeAtoms

RECURSIVE AtomSeqs(_)
AtomSeqs(n) ==
    IF n = 0 THEN {<<>>}
    ELSE {<<a>> \o r : a \in Atoms, r \in AtomSeqs(n - 1)}

Values == UNION {AtomSeqs(n) : n \in 1..MaxAtoms}

NAME_A == <<"-", "-", "a">>
NAME_B == <<"-", "-", "b">>
NAME_BG == <<"b", "g">>
PropNames == {NAME_A, NAME_B, NAME_BG}

\* One declaration, with or without its closing ';', or a declaration followed
\* by a second, short one.
DeclLists ==
    {<<[name |-> n, atoms |-> v, closed |-> c]>> :
        n \in PropNames, v \in Values, c \in BOOLEAN}
      \cup
    {<<[name |-> n, atoms |-> v, closed |-> TRUE],
       [name |-> n2, atoms |-> <<a2>>, closed |-> TRUE]>> :
        n \in PropNames, v \in Values, n2 \in PropNames,
        a2 \in {<<"a">>, <<"\"", ";", "\"">>}}

\* The source text of a declaration list: name ':' value [';'].
RenderDecl(d) ==
    d.name \o <<":">> \o Concat(d.atoms) \o (IF d.closed THEN <<";">> ELSE <<>>)

RenderBlock(ds) == Concat([k \in 1..Len(ds) |-> RenderDecl(ds[k])])

InitTok ==
    /\ pc = "idle"
    /\ ListsIdle
    /\ TokIdle
    /\ ResIdle
    /\ PubIdle
    /\ CacheIdle
    /\ ArtIdle

ParseCssDeclarations ==
    /\ pc = "idle"
    /\ \E ds \in DeclLists :
        /\ declsIn' = ds
        /\ blockIn' = RenderBlock(ds)
        /\ table' = _parse_css_declarations(RenderBlock(ds))
        /\ pc' = "tokenized"
    /\ UNCHANGED <<listVars, resVars, pubVars, cacheVars, artVars>>

NextTok == ParseCssDeclarations

SpecTok == InitTok /\ [][NextTok]_vars

(***************************************************************************)
(* Claims about the tokenizer.                                             *)
(***************************************************************************)
IsCustomProperty(name) == Len(name) >= 2 /\ SubSeq(name, 1, 2) = DASHES

\* The value a declaration was written with: its pieces, trimmed.
WrittenValue(d) == Strip(Concat(d.atoms))

\* The table of the first k declarations of ds (of the custom properties
\* among them only, when customOnly), a later declaration of a name replacing
\* the earlier one.
RECURSIVE WrittenTable(_, _, _)
WrittenTable(ds, k, customOnly) ==
    IF k = 0 THEN <<>>
    ELSE LET t == WrittenTable(ds, k - 1, customOnly)
         IN IF customOnly => IsCustomProperty(ds[k].name)
            THEN Put(t, ds[k].name, WrittenValue(ds[k]))
            ELSE t

\* C3: a ';' ends a value only outside quotes and at parenthesis depth 0, so
\* the value of every custom property is exactly the trimmed source text up
\* to its terminating ';' (or the end of the block): no ';' inside quotes or
\* parentheses cuts it short.
C3_ValueUpToTopLevelSemicolon ==
    pc = "tokenized" =>
        table = WrittenTable(declsIn, Len(declsIn), TRUE)

\* Reached: --a: url("a;b"); tokenized with its value intact.
C3_Witness ==
    /\ pc = "tokenized"
    /\ declsIn = <<[name |-> NAME_A, atoms |-> <<ATOM_URL>>, closed |-> TRUE]>>
    /\ table = <<<<NAME_A, ATOM_URL>>>>

\* The declaration holds a backslash escape.
HasEscape(d) == \E k \in 1..Len(d.atoms) : d.atoms[k] \in EscapeAtoms

\* The last declaration of ds with the given name.
LastNamed(ds, name) ==
    ds[CHOOSE k \in 1..Len(ds) :
          /\ ds[k].name = name
          /\ \A m \in (k + 1)..Len(ds) : ds[m].name # name]

\* C16: a backslash escapes the character after it: an escaped quote neither
\* opens nor closes a string, an escaped parenthesis does not change the depth
\* and an escaped ';' does not end the declaration. So in a block whose first
\* declaration holds escapes, every custom property has its whole written
\* value, and a declaration after it is tokenized on its own.
C16_BackslashEscapes ==
    (pc = "tokenized" /\ HasEscape(declsIn[1])) =>
        /\ Keys(table) = {declsIn[k].name : k \in {m \in 1..Len(declsIn) :
                                                     IsCustomProperty(declsIn[m].name)}}
        /\ \A name \in Keys(table) :
               Get(table, name, <<>>) = WrittenValue(LastNamed(declsIn, name))

\* Reached: `--a:"\";";--b:a;` tokenized into --a = "\";" and --b = a.
C16_Witness ==
    /\ pc = "tokenized"
    /\ declsIn = <<[name |-> NAME_A, atoms |-> <<ATOM_ESCAPED_QUOTE>>, closed |-> TRUE],
                   [name |-> NAME_B, atoms |-> <<<<"a">>>>, closed |-> TRUE]>>
    /\ table = <<<<NAME_A, ATOM_ESCAPED_QUOTE>>, <<NAME_B, <<"a">>>>>>

\* C4: the tokenizer yields the pair (property, value) of every declaration of
\* the block, also of one whose name does not start with "--".
C4_EveryDeclarationYielded ==
    pc = "tokenized" =>
        table = WrittenTable(declsIn, Len(declsIn), FALSE)

(***************************************************************************)
(* The tokenizer on blocks with comments: a comment or none before the     *)
(* first declaration, a value written from the piece `a` and comments, a   *)
(* comment or none after it, a second declaration or none, and an          *)
(* unterminated comment or none at the end.                                *)
(***************************************************************************)
COMMENT_PLAIN == <<"/", "*", "c", "*", "/">>
COMMENT_SEMICOLON == <<"/", "*", ";", "*", "/">>
COMMENT_COLON == <<"/", "*", ":", "*", "/">>
COMMENT_DECLARATION == <<"/", "*", "-", "-", "b", ":", "c", ";", "*", "/">>
COMMENT_UNTERMINATED == <<"/", "*", "-", "-", "a", ":", "c", ";">>
Comments == {COMMENT_PLAIN, COMMENT_SEMICOLON, COMMENT_COLON, COMMENT_DECLARATION}

RECURSIVE PieceSeqs(_)
PieceSeqs(n) ==
    IF n = 0 THEN {<<>>}
    ELSE {<<a>> \o r : a \in {<<"a">>} \cup Comments, r \in PieceSeqs(n - 1)}

CommentedBlocks ==
    {[before |-> b, name |-> n, pieces |-> v, between |-> m, second |-> d, tail |-> t] :
        b \in {<<>>, COMMENT_DECLARATION},
        n \in {NAME_A, NAME_BG},
        v \in UNION {PieceSeqs(k) : k \in 1..MaxAtoms},
        m \in {<<>>, COMMENT_SEMICOLON, COMMENT_DECLARATION},
        d \in BOOLEAN,
        t \in {<<>>, COMMENT_UNTERMINATED}}

\* The source text of a commented block.
RenderCommented(cb) ==
    cb.before \o cb.name \o <<":">> \o Concat(cb.pieces) \o <<";">> \o cb.between
      \o (IF cb.second THEN NAME_B \o <<":", "a", ";">> ELSE <<>>) \o cb.tail

InitComments ==
    /\ pc = "idle"
    /\ ListsIdle
    /\ TokIdle
    /\ ResIdle
    /\ PubIdle
    /\ CacheIdle
    /\ ArtIdle

\* One call of _parse_css_declarations on a commented block.
ParseCommentedBlock ==
    /\ pc = "idle"
    /\ \E cb \in CommentedBlocks :
        /\ declsIn' = cb
        /\ blockIn' = RenderCommented(cb)
        /\ table' = _parse_css_declarations(RenderCommented(cb))
        /\ pc' = "tokenized"
    /\ UNCHANGED <<listVars, resVars, pubVars, cacheVars, artVars>>

NextComments == ParseCommentedBlock

SpecComments == InitComments /\ [][NextComments]_vars

\* The pieces of a value with every comment replaced by the given text.
CommentsAs(pieces, text) ==
    Concat([k \in 1..Len(pieces) |-> IF pieces[k] \in Comments THEN text ELSE pieces[k]])

\* What a value written with comments may be read as when its comments count
\* as whitespace: the comments dropped, replaced by a blank, or kept as
\* written; trimmed.
CommentedReadings(pieces) ==
    {Strip(CommentsAs(pieces, <<>>)), Strip(CommentsAs(pieces, <<" ">>)),
     Strip(Concat(pieces))}

\* The block has a comment inside the value of its first declaration.
CommentInValue(cb) == \E k \in 1..Len(cb.pieces) : cb.pieces[k] \in Comments

\* C22: a comment is skipped as whitespace wherever it stands, between
\* declarations and inside one, so no ';' or ':' inside a comment ends or
\* starts a declaration, and an unterminated comment takes the rest of the
\* input, the declarations before it being returned: the table holds exactly
\* the custom properties written outside comments, each with its own value.
C22_CommentsSkipped ==
    pc = "tokenized" =>
        /\ Keys(table) = (IF IsCustomProperty(declsIn.name) THEN {NAME_A} ELSE {})
                            \cup (IF declsIn.second THEN {NAME_B} ELSE {})
        /\ NAME_A \in Keys(table) =>
               Get(table, NAME_A, <<>>) \in CommentedReadings(declsIn.pieces)
        /\ NAME_B \in Keys(table) => Get(table, NAME_B, <<>>) = <<"a">>

(***************************************************************************)
(* resolve_css_variables (html_convert.py 127-166).                        *)
(***************************************************************************)
ROOT == <<":", "r", "o", "o", "t">>
VAR_DASHES == <<"v", "a", "r", "(", "-", "-">>
\* \w of the pattern, over the characters of the model, and '-'.
NAME_CHARS ==
    {"a", "b", "c", "d", "e", "f", "g", "h", "i", "j", "k", "l", "m", "n", "o",
     "p", "q", "r", "s", "t", "u", "v", "w", "x", "y", "z",
     "0", "1", "2", "3", "4", "5", "6", "7", "8", "9", "_", "-"}

\* Line 143: range(5).
MAX_PASSES == 5

NoMatch == [start |-> 0, open |-> 0, close |-> 0]

\* The search with the pattern r':root\s*\{([^}]*)\}', which an empty block
\* matches too.
RECURSIVE RootSearch_AllowEmpty(_, _)
RootSearch_AllowEmpty(css, i) ==
    LET p == Find(ROOT, css, i)
    IN IF p = 0 THEN NoMatch
       ELSE LET b == SkipWhitespace(css, p + Len(ROOT))
                c == IF b <= Len(css) /\ css[b] = "{"
                     THEN FindChar({"}"}, css, b + 1) ELSE 0
            IN IF c > b THEN [start |-> p, open |-> b, close |-> c]
               ELSE RootSearch_AllowEmpty(css, p + 1)

\* The leftmost match of r':root\s*\{([^}]+)\}' at or after position i: the
\* positions of ':root', of '{' and of the first '}' after it, which must
\* leave at least one character between the braces.
RECURSIVE RootSearch(_, _)
RootSearch(css, i) ==
    LET p == Find(ROOT, css, i)
    IN IF p = 0 THEN NoMatch
       ELSE LET b == SkipWhitespace(css, p + Len(ROOT))
                c == IF b <= Len(css) /\ css[b] = "{"
                     THEN FindChar({"}"}, css, b + 1) ELSE 0
            IN IF c > b + 1 THEN [start |-> p, open |-> b, close |-> c]
               ELSE RootSearch(css, p + 1)

\* re.sub(r'var\((--[\w-]+)\)', lambda m: variables.get(m.group(1), m.group(0)), text)
\* from position i on: a known name is replaced by its value, an unknown one
\* is left as it is; replaced text is not scanned again.
RECURSIVE SubVarFrom(_, _, _)
SubVarFrom(text, i, variables) ==
    LET p == Find(VAR_DASHES, text, i)
    IN IF p = 0 THEN Tail_(text, i)
       ELSE LET n0 == p + Len(VAR_DASHES)
                rest == {j \in n0..Len(text) : text[j] \notin NAME_CHARS}
                stop == IF rest = {} THEN Len(text) + 1 ELSE Min(rest)
                matched == stop > n0 /\ stop <= Len(text) /\ text[stop] = ")"
            IN IF matched
               THEN SubSeq(text, i, p - 1)
                      \o Get(variables, SubSeq(text, p + 4, stop - 1), SubSeq(text, p, stop))
                      \o SubVarFrom(text, stop + 1, variables)
               ELSE SubSeq(text, i, p) \o SubVarFrom(text, p + 1, variables)

SubVar(text, variables) == SubVarFrom(text, 1, variables)

\* A pass that never stores the resolved value (line 152 missing).
RECURSIVE PassFrom_NoStore(_, _, _)
PassFrom_NoStore(variables, k, changed_) ==
    IF k > Len(variables) THEN [variables |-> variables, changed |-> changed_]
    ELSE PassFrom_NoStore(variables, k + 1,
                          changed_ \/ SubVar(variables[k][2], variables) # variables[k][2])

\* Lines 144-153: one pass over variables.items() from the k-th item on; every
\* value is resolved against the table as it stands at that moment.
RECURSIVE PassFrom(_, _, _)
PassFrom(variables, k, changed_) ==
    IF k > Len(variables) THEN [variables |-> variables, changed |-> changed_]
    ELSE LET var_value == variables[k][2]
             resolved == SubVar(var_value, variables)
         IN IF resolved # var_value
            THEN PassFrom(Put(variables, variables[k][1], resolved), k + 1, TRUE)
            ELSE PassFrom(variables, k + 1, changed_)

\* A pass that never sets `changed` (line 153 missing).
ResolutionPass_NeverChanged(variables) ==
    [variables |-> PassFrom(variables, 1, FALSE).variables, changed |-> FALSE]

ResolutionPass(variables) == PassFrom(variables, 1, FALSE)

\* Lines 143-155: the passes still to run after n of them.
RECURSIVE RunPasses(_, _)
RunPasses(variables, n) ==
    IF n >= MAX_PASSES THEN variables
    ELSE LET r == ResolutionPass(variables)
         IN IF r.changed THEN RunPasses(r.variables, n + 1) ELSE r.variables

\* A resolver that leaves the :root block in the document.
RemoveRoot_Keep(resolved_css) == resolved_css

\* Line 164: re.sub(r':root\s*\{[^}]+\}', '', resolved_css, count=1).
RemoveRoot(resolved_css) ==
    LET m == RootSearch(resolved_css, 1)
    IN IF m.start = 0 THEN resolved_css
       ELSE SubSeq(resolved_css, 1, m.start - 1) \o Tail_(resolved_css, m.close + 1)

\* Lines 139-140: the variable table of the matched block.
RootVariables(css, m) == _parse_css_declarations(SubSeq(css, m.open + 1, m.close - 1))

\* A resolver that skips the substitution in the document (line 161 missing).
FinishResolve_NoSubstitution(css, variables) == RemoveRoot(css)

\* Lines 157-166: substitute in the whole document, then drop the :root block.
FinishResolve(css, variables) == RemoveRoot(SubVar(css, variables))

\* Lines 135-137: the return value when no :root block matches.
ReturnUnresolved(css) == css

resolve_css_variables(css) ==
    LET m == RootSearch(css, 1)
    IN IF m.start = 0 THEN ReturnUnresolved(css)
       ELSE FinishResolve(css, RunPasses(RootVariables(css, m), 0))

(***************************************************************************)
(* The documents handed to the resolver. A name is a number: k >= 1 is the *)
(* k-th letter, 0 a name no :root block declares. A value is a sequence of *)
(* tokens: k >= 0 is var(--name k), -1 the literal x, -2 the string "}".   *)
(***************************************************************************)
LETTERS ==
    <<"a", "b", "c", "d", "e", "f", "g", "h", "i", "j", "k", "l", "m", "n", "o",
      "p", "q", "r", "s", "t", "v", "w", "y", "z", "0", "1", "2", "3", "4", "5",
      "6", "7", "8", "9", "_">>
NameOf(k) == DASHES \o <<IF k = 0 THEN "u" ELSE LETTERS[k]>>
VarRef(k) == <<"v", "a", "r", "(">> \o NameOf(k) \o <<")">>
\* The value with no reference: the literal `x`.
LITERAL_VALUE == <<-1>>

\* The value that is a quoted closing brace: the string "}".
QUOTED_BRACE == <<"\"", "}", "\"">>
QUOTED_BRACE_VALUE == <<-2>>

RenderValue(v) ==
    Concat([k \in 1..Len(v) |->
              IF v[k] = -2 THEN QUOTED_BRACE
              ELSE IF v[k] < 0 THEN <<"x">>
              ELSE VarRef(v[k])])

\* A :root block: with declarations, `:root{}`, or `:root{ }`.
RenderRoot(b) ==
    ROOT \o (IF b.sp THEN <<" ">> ELSE <<>>) \o <<"{">>
      \o (CASE b.kind = "empty" -> <<>>
            [] b.kind = "blank" -> <<" ">>
            [] b.kind = "decls" ->
                 Concat([k \in 1..Len(b.vars) |->
                           NameOf(b.vars[k][1]) \o <<":">>
                             \o RenderValue(b.vars[k][2]) \o <<";">>]))
      \o <<"}">>

\* The rule that uses the variables: p{c:var(--a)var(--b)}, or p{c:x}.
RenderRule(use) ==
    <<"p", "{", "c", ":">>
      \o (IF use = <<>> THEN <<"x">> ELSE Concat([k \in 1..Len(use) |-> VarRef(use[k])]))
      \o <<"}">>

RenderSheet(sh) ==
    Concat([k \in 1..Len(sh.blocks) |-> RenderRoot(sh.blocks[k])]) \o RenderRule(sh.use)

DeclBlock(vs) == [kind |-> "decls", sp |-> FALSE, vars |-> vs]

RECURSIVE Perms(_)
Perms(S) ==
    IF S = {} THEN {<<>>}
    ELSE UNION {{<<x>> \o q : q \in Perms(S \ {x})} : x \in S}

\* The chain 1 -> 2 -> ... -> n -> x, its declarations in the given order.
ChainVars(order, n) ==
    [k \in 1..Len(order) |->
        <<order[k], IF order[k] < n THEN <<order[k] + 1>> ELSE LITERAL_VALUE>>]

Forward(n) == [k \in 1..n |-> k]
Backward(n) == [k \in 1..n |-> n + 1 - k]

\* The longest chain 5 passes resolve in every order: a pass substitutes the
\* current value of the referenced variable, which at least doubles the
\* distance each variable has been resolved over.
CHAIN_REACH == 2 ^ MAX_PASSES

ChainOrders ==
    UNION {Perms(1..n) : n \in 1..MaxPermuted}
      \cup {Forward(n) : n \in (MaxPermuted + 1)..MaxChain}
      \cup {Backward(n) : n \in (MaxPermuted + 1)..MaxChain}
      \cup {Forward(CHAIN_REACH), Forward(CHAIN_REACH + 1), Backward(CHAIN_REACH + 1)}

ChainSheet(o) ==
    [family |-> "chain", n |-> Len(o),
     blocks |-> <<DeclBlock(ChainVars(o, Len(o)))>>, use |-> <<1>>]

ChainSheets == {ChainSheet(o) : o \in ChainOrders}

\* A :root block of n variables whose values are a literal, a reference to any
\* of them (itself included) or to an undeclared name, or such a reference
\* followed by a literal: self-references and cycles are among them.
TableValues(n) ==
    {LITERAL_VALUE} \cup {<<t>> : t \in 0..n} \cup {<<t>> \o LITERAL_VALUE : t \in 0..n}

TableSheets ==
    UNION {
        {[family |-> "table", n |-> n,
          blocks |-> <<DeclBlock([k \in 1..n |-> <<k, vals[k]>>])>>, use |-> <<u>>] :
            vals \in [1..n -> TableValues(n)], u \in 0..n}
        : n \in 1..MaxVars}

\* Documents with no, an empty, a blank or several :root blocks.
EMPTY_ROOT == [kind |-> "empty", sp |-> FALSE, vars |-> <<>>]
BLANK_ROOT == [kind |-> "blank", sp |-> FALSE, vars |-> <<>>]
ShapeBlocks ==
    {EMPTY_ROOT, BLANK_ROOT,
     DeclBlock(<<<<1, LITERAL_VALUE>>>>),
     [kind |-> "decls", sp |-> TRUE, vars |-> <<<<1, LITERAL_VALUE>>>>],
     DeclBlock(<<<<2, LITERAL_VALUE>>>>)}

ShapeSheets ==
    {[family |-> "shape", n |-> Len(bs), blocks |-> bs, use |-> u] :
        bs \in {<<>>} \cup {<<b>> : b \in ShapeBlocks}
                 \cup {<<b1, b2>> : b1 \in ShapeBlocks, b2 \in ShapeBlocks},
        u \in {<<>>, <<0>>, <<1>>, <<2>>, <<1, 2>>}}

\* Documents whose first :root block holds a `}` inside a quoted value,
\* followed by a second declaration and, in some, by a second :root block.
QuotedValues ==
    {QUOTED_BRACE_VALUE, LITERAL_VALUE \o QUOTED_BRACE_VALUE,
     QUOTED_BRACE_VALUE \o LITERAL_VALUE}

QuotedSheets ==
    {[family |-> "quoted", n |-> Len(bs), blocks |-> bs, use |-> u] :
        bs \in UNION {{<<DeclBlock(<<<<1, v>>, <<2, LITERAL_VALUE>>>>)>>,
                       <<DeclBlock(<<<<1, v>>, <<2, LITERAL_VALUE>>>>),
                         DeclBlock(<<<<3, LITERAL_VALUE>>>>)>>} : v \in QuotedValues},
        u \in {<<1>>, <<2>>, <<1, 2>>, <<2, 3>>}}

Sheets == ChainSheets \cup TableSheets \cup ShapeSheets \cup QuotedSheets

(***************************************************************************)
(* The resolver as a state machine: one call of resolve_css_variables,     *)
(* a step for the search of the :root block, one per resolution pass and   *)
(* one for the substitution in the document.                               *)
(***************************************************************************)
InitResolve ==
    /\ pc = "idle"
    /\ ListsIdle
    /\ TokIdle
    /\ ResIdle
    /\ PubIdle
    /\ CacheIdle
    /\ ArtIdle

\* Lines 135-137: no :root block matches, the document is returned as it is.
ResolveNoRoot ==
    /\ pc = "idle"
    /\ \E sh \in Sheets :
        /\ RootSearch(RenderSheet(sh), 1).start = 0
        /\ sheet' = sh
        /\ cssDoc' = RenderSheet(sh)
        /\ resolvedCss' = ReturnUnresolved(RenderSheet(sh))
    /\ pc' = "resolved"
    /\ UNCHANGED <<varTable, passes, changed, listVars, tokVars, pubVars, cacheVars, artVars>>

\* Lines 135-140: a :root block matches, its declarations are tokenized.
ResolveBegin ==
    /\ pc = "idle"
    /\ \E sh \in Sheets :
        LET m == RootSearch(RenderSheet(sh), 1)
        IN /\ m.start # 0
           /\ sheet' = sh
           /\ cssDoc' = RenderSheet(sh)
           /\ varTable' = RootVariables(RenderSheet(sh), m)
    /\ passes' = 0
    /\ changed' = FALSE
    /\ pc' = "passes"
    /\ UNCHANGED <<resolvedCss, listVars, tokVars, pubVars, cacheVars, artVars>>

\* A loop without the cap of 5 iterations.
LoopContinues_Uncapped == pc = "passes" /\ (passes = 0 \/ changed)

\* Lines 143 and 154-155: another iteration of `for _ in range(5)` follows:
\* the range is not exhausted and the last pass did not break.
LoopContinues ==
    /\ pc = "passes"
    /\ passes < MAX_PASSES
    /\ passes = 0 \/ changed

\* Lines 143 and 154-155: the loop is left, by break or by exhaustion.
LoopExits ==
    /\ pc = "passes"
    /\ passes >= MAX_PASSES \/ (passes > 0 /\ ~changed)

\* Lines 143-153: one iteration of `for _ in range(5)`.
ResolvePass ==
    /\ LoopContinues
    /\ LET r == ResolutionPass(varTable)
       IN /\ varTable' = r.variables
          /\ changed' = r.changed
    /\ passes' = passes + 1
    /\ UNCHANGED <<pc, sheet, cssDoc, resolvedCss, listVars, tokVars, pubVars, cacheVars, artVars>>

\* Lines 154-166: the loop is left (break, or range exhausted), the document
\* is substituted and the :root block removed.
ResolveFinish ==
    /\ LoopExits
    /\ resolvedCss' = FinishResolve(cssDoc, varTable)
    /\ pc' = "resolved"
    /\ UNCHANGED <<sheet, cssDoc, varTable, passes, changed, listVars, tokVars,
                   pubVars, cacheVars, artVars>>

NextResolve == ResolveNoRoot \/ ResolveBegin \/ ResolvePass \/ ResolveFinish

SpecResolve == InitResolve /\ [][NextResolve]_vars

(***************************************************************************)
(* Claims about the resolver.                                              *)
(***************************************************************************)
\* The rule of a document all of whose references were resolved: p{c:x}.
RESOLVED_RULE == RenderRule(<<>>)

\* The variable k of a table sheet refers to itself and the rule uses it.
SelfReferenceUsed(sh, k) ==
    /\ sh.family = "table"
    /\ k \in 1..sh.n
    /\ sh.use = <<k>>
    /\ Head(sh.blocks[1].vars[k][2]) = k

C6_ShortChainResolved ==
    (pc = "resolved" /\ sheet.family = "chain" /\ sheet.n <= MAX_PASSES + 1)
        => resolvedCss = RESOLVED_RULE

\* Reached: the chain of 6 variables declared in chain order, resolved.
C6_Witness ==
    /\ pc = "resolved"
    /\ sheet = ChainSheet(Forward(MAX_PASSES + 1))
    /\ resolvedCss = RESOLVED_RULE

\* C7 as stated: a chain more than 5 levels deep (7 variables or more) is not
\* fully resolved, the output still holds a literal var(--name).
C7_DeepChainLeftUnresolved ==
    (pc = "resolved" /\ sheet.family = "chain" /\ sheet.n > MAX_PASSES + 1)
        => Contains(VAR_DASHES, resolvedCss)

\* C7 as amended: a chain more than 5 levels deep is resolved without error
\* in at most 5 passes, and fully as long as it has at most 32 variables: a
\* pass substitutes the current value of the referenced variable, so the cap
\* of 5 passes does not stop resolution at 5 levels. The chain of 33
\* variables declared in chain order is the first to keep a reference: the one
\* to its last variable.
C7_DeepChainResolved ==
    (pc = "resolved" /\ sheet.family = "chain" /\ sheet.n > MAX_PASSES + 1)
        => /\ passes <= MAX_PASSES
           /\ sheet.n <= CHAIN_REACH => resolvedCss = RESOLVED_RULE
           /\ sheet = ChainSheet(Forward(CHAIN_REACH + 1))
                 => resolvedCss = RenderRule(<<CHAIN_REACH + 1>>)

\* Reached: the chain of 32 variables declared in chain order, resolved.
C7_Witness ==
    /\ pc = "resolved"
    /\ sheet = ChainSheet(Forward(CHAIN_REACH))
    /\ passes = MAX_PASSES
    /\ resolvedCss = RESOLVED_RULE

\* The :root blocks of a sheet that the pattern matches: all but `:root{}`.
MatchingBlocks(sh) == {k \in 1..Len(sh.blocks) : sh.blocks[k].kind # "empty"}

\* C8 as stated: resolving the result of a resolution again changes nothing,
\* for every document.
C8_Idempotent ==
    pc = "resolved" => resolve_css_variables(resolvedCss) = resolvedCss

\* C8 as amended: a document in which no :root block matches is returned
\* unchanged, and the result of resolving a document with at most one
\* matching :root block holds none, so there resolving twice equals
\* resolving once.
C8_IdempotentOnSingleRoot ==
    pc = "resolved" =>
        /\ Cardinality(MatchingBlocks(sheet)) <= 1
              => RootSearch(resolvedCss, 1).start = 0
        /\ RootSearch(resolvedCss, 1).start = 0
              => resolve_css_variables(resolvedCss) = resolvedCss

\* Reached: a single :root block was resolved and removed, and the result
\* still holds a var() reference.
C8_Witness ==
    /\ pc = "resolved"
    /\ Cardinality(MatchingBlocks(sheet)) = 1
    /\ passes > 0
    /\ Contains(VAR_DASHES, resolvedCss)
    /\ resolve_css_variables(resolvedCss) = resolvedCss

\* Every :root block of the sheet is `:root{}` or `:root{ }` (or there is none).
OnlyEmptyRoots(sh) == \A k \in 1..Len(sh.blocks) : sh.blocks[k].kind \in {"empty", "blank"}

\* C9 as stated: without a :root block, or with an empty or blank one, the
\* document is returned unchanged.
C9_EmptyRootUnchanged ==
    (pc = "resolved" /\ OnlyEmptyRoots(sheet)) => resolvedCss = cssDoc

\* The sheet without its k-th block.
WithoutBlock(sh, k) ==
    [sh EXCEPT !.blocks = SubSeq(sh.blocks, 1, k - 1) \o Tail_(sh.blocks, k + 1)]

\* C9 as amended: without a :root block, or with `:root{}` only, the document
\* is returned unchanged; a blank block `:root{ }` is matched, so nothing is
\* substituted but the first blank block is removed from the document.
C9_EmptyRootUnchangedBlankRemoved ==
    (pc = "resolved" /\ OnlyEmptyRoots(sheet)) =>
        IF MatchingBlocks(sheet) = {}
        THEN resolvedCss = cssDoc
        ELSE resolvedCss = RenderSheet(WithoutBlock(sheet, Min(MatchingBlocks(sheet))))

\* Reached: `:root{ }p{c:var(--a)}` resolved to `p{c:var(--a)}`.
C9_Witness ==
    /\ pc = "resolved"
    /\ sheet.blocks = <<BLANK_ROOT>>
    /\ sheet.use = <<1>>
    /\ resolvedCss = RenderRule(<<1>>)

\* The text of a reference to the variable of the given name.
KeyRef(name) == <<"v", "a", "r", "(">> \o name \o <<")">>

\* The value holds a reference to a key of the table.
HoldsKeyRef(tbl, value) == \E key \in Keys(tbl) : Contains(KeyRef(key), value)

\* C17 as stated: after the resolution passes no value stored in the table
\* holds a var(--name) whose name is a key of the table.
C17_NoKeyReferenceLeft ==
    pc = "resolved" =>
        \A k \in 1..Len(varTable) : ~HoldsKeyRef(varTable, varTable[k][2])

\* In a table sheet, the references followed from variable k for the given
\* number of steps never leave the declared variables: k is on a cycle or
\* leads to one.
RECURSIVE StaysDeclared(_, _, _)
StaysDeclared(sh, k, steps) ==
    IF steps = 0 THEN TRUE
    ELSE LET t == Head(sh.blocks[1].vars[k][2])
         IN t \in 1..sh.n /\ StaysDeclared(sh, t, steps - 1)

ReachesCycle(sh, k) == StaysDeclared(sh, k, sh.n)

\* C17 as amended: after the resolution passes a stored value holds a
\* reference to a key of the table exactly when its variable refers to itself,
\* directly or through a cycle, or leads to such a variable; the variables of
\* an acyclic chain of up to 32 variables hold none.
C17_KeyReferenceOnlyFromCycles ==
    pc = "resolved" =>
        /\ sheet.family = "table" =>
               \A k \in 1..Len(varTable) :
                   HoldsKeyRef(varTable, varTable[k][2]) <=> ReachesCycle(sheet, k)
        /\ (sheet.family = "shape"
               \/ (sheet.family = "chain" /\ sheet.n <= CHAIN_REACH)) =>
               \A k \in 1..Len(varTable) : ~HoldsKeyRef(varTable, varTable[k][2])

\* Reached: the cycle --a:var(--b); --b:var(--a) after its passes, both values
\* still holding a reference to a key.
C17_Witness ==
    /\ pc = "resolved"
    /\ sheet.family = "table"
    /\ sheet.n = 2
    /\ sheet.blocks[1].vars[1][2] = <<2>>
    /\ sheet.blocks[1].vars[2][2] = <<1>>
    /\ varTable = <<<<NameOf(1), VarRef(1)>>, <<NameOf(2), VarRef(1)>>>>
    /\ \A k \in 1..2 : HoldsKeyRef(varTable, varTable[k][2])

\* What a value is to become under the table tbl: a reference to a key is
\* replaced by the value stored under it, a reference to another name and a
\* literal stay as written.
SubstitutedValue(v, tbl) ==
    Concat([k \in 1..Len(v) |->
              IF v[k] = -2 THEN QUOTED_BRACE
              ELSE IF v[k] < 0 THEN <<"x">>
              ELSE IF NameOf(v[k]) \in Keys(tbl) THEN Get(tbl, NameOf(v[k]), <<>>)
              ELSE VarRef(v[k])])

SubstitutedRoot(b, tbl) ==
    ROOT \o (IF b.sp THEN <<" ">> ELSE <<>>) \o <<"{">>
      \o (CASE b.kind = "empty" -> <<>>
            [] b.kind = "blank" -> <<" ">>
            [] b.kind = "decls" ->
                 Concat([k \in 1..Len(b.vars) |->
                           NameOf(b.vars[k][1]) \o <<":">>
                             \o SubstitutedValue(b.vars[k][2], tbl) \o <<";">>]))
      \o <<"}">>

SubstitutedRule(use, tbl) ==
    <<"p", "{", "c", ":">>
      \o (IF use = <<>> THEN <<"x">> ELSE SubstitutedValue(use, tbl))
      \o <<"}">>

\* The document of the sheet, every reference of it replaced or kept.
SubstitutedSheet(sh, tbl) ==
    Concat([k \in 1..Len(sh.blocks) |-> SubstitutedRoot(sh.blocks[k], tbl)])
      \o SubstitutedRule(sh.use, tbl)

\* C18: every var(--name) of the document whose name is a key of the final
\* table is replaced by the value stored under it, in the rule outside :root
\* as in the :root blocks, and every var(--name) whose name is no key is left
\* as the same text; the result is that document less its first :root block.
C18_EveryOccurrenceSubstituted ==
    pc = "resolved" =>
        /\ resolvedCss = RemoveRoot(SubstitutedSheet(sheet, varTable))
        /\ LET rule == SubstitutedRule(sheet.use, varTable)
               n == Len(resolvedCss)
           IN /\ n >= Len(rule)
              /\ SubSeq(resolvedCss, n - Len(rule) + 1, n) = rule

\* Reached: :root{--a:x;}p{c:var(--a)var(--b)} resolved into p{c:xvar(--b)}.
C18_Witness ==
    /\ pc = "resolved"
    /\ cssDoc = ROOT \o <<"{">> \o NameOf(1) \o <<":", "x", ";", "}">>
                  \o <<"p", "{", "c", ":">> \o VarRef(1) \o VarRef(2) \o <<"}">>
    /\ varTable = <<<<NameOf(1), <<"x">>>>>>
    /\ resolvedCss = <<"p", "{", "c", ":", "x">> \o VarRef(2) \o <<"}">>

\* The first :root block of the sheet holds declarations.
FirstBlockDeclares(sh) == Len(sh.blocks) >= 1 /\ sh.blocks[1].kind = "decls"

\* The declarations of a :root block as written, up to its closing brace.
WrittenVars(b) ==
    [k \in 1..Len(b.vars) |-> <<NameOf(b.vars[k][1]), RenderValue(b.vars[k][2])>>]

\* C19: the :root block is delimited by brace-balanced matching and only its
\* first occurrence is used: the table read from the document holds exactly
\* the declarations of the first :root block up to its matching closing brace
\* (a `}` inside a quoted value does not end the block), no declaration of a
\* later :root block; and the output is the document less that whole first
\* block, later :root blocks remaining.
C19_FirstRootBraceBalanced ==
    /\ (pc = "passes" /\ passes = 0 /\ FirstBlockDeclares(sheet))
          => varTable = WrittenVars(sheet.blocks[1])
    /\ (pc = "resolved" /\ FirstBlockDeclares(sheet))
          => resolvedCss = SubstitutedSheet(WithoutBlock(sheet, 1), varTable)

(***************************************************************************)
(* _extract_pseudo_rules (html_convert.py 169-182).                        *)
(***************************************************************************)
\* The alternatives of (?:::before|::after|:nth-child|:hover|:focus).
PSEUDO_CONSTRUCTS ==
    {<<":", ":", "b", "e", "f", "o", "r", "e">>,
     <<":", ":", "a", "f", "t", "e", "r">>,
     <<":", "n", "t", "h", "-", "c", "h", "i", "l", "d">>,
     <<":", "h", "o", "v", "e", "r">>,
     <<":", "f", "o", "c", "u", "s">>}

PseudoAt(css, t) == \E p \in PSEUDO_CONSTRUCTS : MatchAt(p, css, t)

\* Leftmost position at or after i where a pseudo-construct starts; 0 when none.
FirstPseudo(css, i) ==
    LET c == {t \in i..Len(css) : PseudoAt(css, t)}
    IN IF c = {} THEN 0 ELSE Min(c)

\* [^{}]* before the construct: the leftmost start s >= i with no brace in
\* css[s..t-1].
RECURSIVE SelectorStart(_, _, _)
SelectorStart(css, i, t) ==
    IF t > i /\ css[t - 1] \notin {"{", "}"} THEN SelectorStart(css, i, t - 1) ELSE t

\* The leftmost match of the pattern at or after position i. The construct is
\* followed by [^{]*, which runs to the next `{` (over any `}` on the way), and
\* the body [^}]* runs to the next `}`.
PseudoSearch(css, i) ==
    LET t == FirstPseudo(css, i)
        b == IF t = 0 THEN 0 ELSE FindChar({"{"}, css, t)
        c == IF b = 0 THEN 0 ELSE FindChar({"}"}, css, b + 1)
    IN IF c = 0 THEN NoMatch
       ELSE [start |-> SelectorStart(css, i, t), open |-> b, close |-> c]

\* Lines 177-181: the rules appended to pseudo_rules by the matches of
\* re.finditer from position i on.
RECURSIVE PseudoRulesFrom(_, _)
PseudoRulesFrom(css, i) ==
    LET m == PseudoSearch(css, i)
    IN IF m = NoMatch THEN <<>>
       ELSE LET selector == Strip(SubSeq(css, m.start, m.open - 1))
                body == Strip(SubSeq(css, m.open + 1, m.close - 1))
            IN (IF body # <<>>
                THEN <<selector \o <<" ", "{">> \o body \o <<"}">>>>
                ELSE <<>>) \o PseudoRulesFrom(css, m.close + 1)

\* '\n'.join(parts).
RECURSIVE Join(_)
Join(parts) ==
    IF parts = <<>> THEN <<>>
    ELSE IF Len(parts) = 1 THEN parts[1]
    ELSE parts[1] \o <<"\n">> \o Join(Tail(parts))

_extract_pseudo_rules(css) == Join(PseudoRulesFrom(css, 1))

(***************************************************************************)
(* apply_theme_for_publish (html_convert.py 203-254).                      *)
(***************************************************************************)
\* Lines 216-221.
list_base_css ==
    <<"\n", "#", "w", "e", "n", "y", "a", "n", " ", "u", "l", " ", "{", " ",
      "l", "i", "s", "t", "-", "s", "t", "y", "l", "e", ":", " ", "n", "o",
      "n", "e", ";", " ", "p", "a", "d", "d", "i", "n", "g", "-", "l", "e",
      "f", "t", ":", " ", "2", "e", "m", ";", " ", "m", "a", "r", "g", "i",
      "n", ":", " ", "1", "e", "m", " ", "0", ";", " ", "}", "\n", "#", "w",
      "e", "n", "y", "a", "n", " ", "o", "l", " ", "{", " ", "l", "i", "s",
      "t", "-", "s", "t", "y", "l", "e", ":", " ", "n", "o", "n", "e", ";",
      " ", "p", "a", "d", "d", "i", "n", "g", "-", "l", "e", "f", "t", ":",
      " ", "2", "e", "m", ";", " ", "m", "a", "r", "g", "i", "n", ":", " ",
      "1", "e", "m", " ", "0", ";", " ", "}", "\n", "#", "w", "e", "n", "y",
      "a", "n", " ", "l", "i", " ", "{", " ", "m", "a", "r", "g", "i", "n",
      ":", " ", "0", ".", "5", "e", "m", " ", "0", ";", " ", "}", "\n", "#",
      "w", "e", "n", "y", "a", "n", " ", "l", "i", " ", "p", " ", "{", " ",
      "m", "a", "r", "g", "i", "n", ":", " ", "0", ";", " ", "d", "i", "s",
      "p", "l", "a", "y", ":", " ", "i", "n", "l", "i", "n", "e", ";", " ",
      "}", "\n">>

\* Lines 228-229: the f-string around combined_css and html.
FULL_HTML_HEAD ==
    <<"<", "h", "t", "m", "l", ">", "<", "h", "e", "a", "d", ">", "<", "s",
      "t", "y", "l", "e", ">">>
FULL_HTML_MID ==
    <<"<", "/", "s", "t", "y", "l", "e", ">", "<", "/", "h", "e", "a", "d",
      ">", "\n", "<", "b", "o", "d", "y", ">", "<", "s", "e", "c", "t", "i",
      "o", "n", " ", "i", "d", "=", "\"", "w", "e", "n", "y", "a", "n", "\"",
      ">">>
FULL_HTML_TAIL ==
    <<"<", "/", "s", "e", "c", "t", "i", "o", "n", ">", "<", "/", "b", "o",
      "d", "y", ">", "<", "/", "h", "t", "m", "l", ">">>
SECTION_WENYAN ==
    <<"<", "s", "e", "c", "t", "i", "o", "n", " ", "i", "d", "=", "\"", "w",
      "e", "n", "y", "a", "n", "\"">>
SECTION_OPEN ==
    <<"<", "s", "e", "c", "t", "i", "o", "n", " ", "i", "d", "=", "\"", "w",
      "e", "n", "y", "a", "n", "\"", ">">>
SECTION_CLOSE ==
    <<"<", "/", "s", "e", "c", "t", "i", "o", "n", ">">>
STYLE_OPEN ==
    <<"<", "s", "t", "y", "l", "e", ">">>
STYLE_CLOSE ==
    <<"<", "/", "s", "t", "y", "l", "e", ">">>

\* Lines 213-229: combined_css and the document built around it.
CombinedCss(css) == list_base_css \o resolve_css_variables(css)

FullHtml(css, html_) ==
    FULL_HTML_HEAD \o CombinedCss(css) \o FULL_HTML_MID \o html_ \o FULL_HTML_TAIL

\* Lines 239-248: re.search(r'(<section id="wenyan"[^>]*>)(.*?)(</section>)')
\* on the inliner's output, and the re-wrapped original fragment without a match.
ExtractSection(inlined_, html_) ==
    LET s == Find(SECTION_WENYAN, inlined_, 1)
        g == IF s = 0 THEN 0 ELSE FindChar({">"}, inlined_, s + Len(SECTION_WENYAN))
        e == IF g = 0 THEN 0 ELSE Find(SECTION_CLOSE, inlined_, g + 1)
    IN IF e # 0 THEN SubSeq(inlined_, s, e + Len(SECTION_CLOSE) - 1)
       ELSE SECTION_OPEN \o html_ \o SECTION_CLOSE

\* A version that puts the <style> block first whatever pseudo_css holds.
WithPseudoStyle_Always(pseudo_css, result_) ==
    STYLE_OPEN \o pseudo_css \o STYLE_CLOSE \o <<"\n">> \o result_

\* Lines 250-252: the <style> block put before the fragment.
WithPseudoStyle(pseudo_css, result_) ==
    IF Strip(pseudo_css) # <<>>
    THEN STYLE_OPEN \o pseudo_css \o STYLE_CLOSE \o <<"\n">> \o result_
    ELSE result_

(***************************************************************************)
(* The style inliner (css_inline.CSSInliner.inline, called at lines        *)
(* 231-236): a library outside the repository. It is modelled by its       *)
(* contract: the rules of the <style> element are written into the style   *)
(* attribute of the elements their selectors match, and the <style>        *)
(* element is dropped (keep_style_tags=False). Whether the library's       *)
(* selector engine matches a selector with a pseudo-construct is its       *)
(* choice (`dyn`).                                                         *)
(***************************************************************************)
ID_WENYAN == <<"#", "w", "e", "n", "y", "a", "n">>
ID_WENYAN_ATTR == <<"i", "d", "=", "\"", "w", "e", "n", "y", "a", "n", "\"">>
BODY_OPEN == <<"<", "b", "o", "d", "y", ">">>
BODY_CLOSE == <<"<", "/", "b", "o", "d", "y", ">">>
INLINED_HEAD ==
    <<"<", "h", "t", "m", "l", ">", "<", "h", "e", "a", "d", ">", "<", "/", "h",
      "e", "a", "d", ">", "<", "b", "o", "d", "y", ">">>
INLINED_TAIL == <<"<", "/", "b", "o", "d", "y", ">", "<", "/", "h", "t", "m", "l", ">">>
STYLE_ATTR == <<" ", "s", "t", "y", "l", "e", "=", "\"">>

\* The text of the <style> element of a document.
StyleOf(doc) ==
    LET a == Find(STYLE_OPEN, doc, 1)
        z == Find(STYLE_CLOSE, doc, a + Len(STYLE_OPEN))
    IN SubSeq(doc, a + Len(STYLE_OPEN), z - 1)

\* The content of the <body> element of a document.
BodyOf(doc) ==
    LET a == Find(BODY_OPEN, doc, 1)
        z == Find(BODY_CLOSE, doc, a + Len(BODY_OPEN))
    IN SubSeq(doc, a + Len(BODY_OPEN), z - 1)

\* The rules `selector { body }` of a style sheet, from position i on.
RECURSIVE RulesFrom(_, _)
RulesFrom(css, i) ==
    LET b == FindChar({"{"}, css, i)
        c == IF b = 0 THEN 0 ELSE FindChar({"}"}, css, b + 1)
    IN IF c = 0 THEN <<>>
       ELSE <<[selector |-> Strip(SubSeq(css, i, b - 1)),
               body |-> Strip(SubSeq(css, b + 1, c - 1))]>>
            \o RulesFrom(css, c + 1)

\* The compound selectors of a selector, split at spaces.
RECURSIVE Compounds(_)
Compounds(sel) ==
    LET sp == FindChar({" "}, sel, 1)
    IN IF sel = <<>> THEN <<>>
       ELSE IF sp = 0 THEN <<sel>>
       ELSE (IF sp = 1 THEN <<>> ELSE <<SubSeq(sel, 1, sp - 1)>>)
            \o Compounds(Tail_(sel, sp + 1))

\* The selector matches the element with the given name and open tag inside
\* the container: `#wenyan`, `name` or `#wenyan name`, a pseudo-construct
\* after it counting as matched when dyn.
SelectorMatches(selector, name, tag, dyn) ==
    LET t == FirstPseudo(selector, 1)
        base == IF t = 0 THEN selector ELSE SubSeq(selector, 1, t - 1)
        cs == Compounds(base)
    IN /\ t # 0 => dyn
       /\ cs # <<>>
       /\ \/ cs = <<ID_WENYAN>> /\ Contains(ID_WENYAN_ATTR, tag)
          \/ cs = <<name>>
          \/ cs = <<ID_WENYAN, name>> /\ ~Contains(ID_WENYAN_ATTR, tag)

\* The declarations the rules give an element, in the order of the rules.
RECURSIVE InlineDecls(_, _, _, _)
InlineDecls(rules, name, tag, dyn) ==
    IF rules = <<>> THEN <<>>
    ELSE (IF SelectorMatches(rules[1].selector, name, tag, dyn) /\ rules[1].body # <<>>
          THEN rules[1].body
               \o (IF rules[1].body[Len(rules[1].body)] = ";" THEN <<>> ELSE <<";">>)
          ELSE <<>>) \o InlineDecls(Tail(rules), name, tag, dyn)

\* The markup from position i on with a style attribute in every open tag that
\* some rule matches.
RECURSIVE InlineFrom(_, _, _, _)
InlineFrom(doc, i, rules, dyn) ==
    LET lt == FindChar({"<"}, doc, i)
        gt == IF lt = 0 THEN 0 ELSE FindChar({">"}, doc, lt + 1)
    IN IF gt = 0 THEN Tail_(doc, i)
       ELSE IF doc[lt + 1] = "/"
       THEN SubSeq(doc, i, gt) \o InlineFrom(doc, gt + 1, rules, dyn)
       ELSE LET sp == FindChar({" "}, doc, lt + 1)
                nameEnd == IF sp = 0 \/ sp > gt THEN gt - 1 ELSE sp - 1
                decls == InlineDecls(rules, SubSeq(doc, lt + 1, nameEnd),
                                     SubSeq(doc, lt, gt), dyn)
            IN SubSeq(doc, i, gt - 1)
               \o (IF decls = <<>> THEN <<>> ELSE STYLE_ATTR \o decls \o <<"\"">>)
               \o <<">">> \o InlineFrom(doc, gt + 1, rules, dyn)

Inline(full_html, dyn) ==
    INLINED_HEAD
        \o InlineFrom(BodyOf(full_html), 1, RulesFrom(StyleOf(full_html), 1), dyn)
        \o INLINED_TAIL

\* The same document serialised with the id attribute in single quotes.
SECTION_WENYAN_SINGLE ==
    <<"<", "s", "e", "c", "t", "i", "o", "n", " ", "i", "d", "=", "'", "w", "e",
      "n", "y", "a", "n", "'">>
Requoted(doc) == ReplaceAll(SECTION_WENYAN, SECTION_WENYAN_SINGLE, doc)

(***************************************************************************)
(* apply_theme_for_preview (html_convert.py 193-200), css being the CSS    *)
(* _get_theme_css returns.                                                 *)
(***************************************************************************)
PREVIEW_HEAD == <<"<", "s", "t", "y", "l", "e", ">", "\n">>
PREVIEW_MID ==
    <<"\n", "<", "/", "s", "t", "y", "l", "e", ">", "\n", "<", "s", "e", "c",
      "t", "i", "o", "n", " ", "i", "d", "=", "\"", "w", "e", "n", "y", "a", "n",
      "\"", ">", "\n">>
PREVIEW_TAIL == <<"\n", "<", "/", "s", "e", "c", "t", "i", "o", "n", ">">>
apply_theme_for_preview(html_, css) ==
    PREVIEW_HEAD \o css \o PREVIEW_MID \o html_ \o PREVIEW_TAIL

(***************************************************************************)
(* Themes and fragments the publish path is run on.                        *)
(***************************************************************************)
MaxRules == 2

RULE_CONTAINER ==
    <<"#", "w", "e", "n", "y", "a", "n", "{", "c", "o", "l", "o", "r", ":",
      "r", "e", "d", "}">>
RULE_P ==
    <<"#", "w", "e", "n", "y", "a", "n", " ", "p", "{", "c", "o", "l", "o",
      "r", ":", "v", "a", "r", "(", "-", "-", "a", ")", "}">>
RULE_HOVER ==
    <<"#", "w", "e", "n", "y", "a", "n", " ", "p", ":", "h", "o", "v", "e",
      "r", "{", "c", "o", "l", "o", "r", ":", "b", "l", "u", "e", "}">>
RULE_NTH_CHILD ==
    <<"#", "w", "e", "n", "y", "a", "n", " ", "l", "i", ":", "n", "t", "h",
      "-", "c", "h", "i", "l", "d", "(", "2", ")", "{", "c", "o", "l", "o",
      "r", ":", "r", "e", "d", "}">>
RULE_BEFORE ==
    <<"#", "w", "e", "n", "y", "a", "n", " ", "p", ":", ":", "b", "e", "f",
      "o", "r", "e", "{", "c", "o", "n", "t", "e", "n", "t", ":", "'", "a",
      "'", "}">>
RULE_FOCUS_EMPTY ==
    <<"#", "w", "e", "n", "y", "a", "n", " ", "a", ":", "f", "o", "c", "u",
      "s", "{", " ", "}">>
THEME_ROOT ==
    <<":", "r", "o", "o", "t", "{", "-", "-", "a", ":", "x", ";", "}">>
FRAGMENT_P ==
    <<"<", "p", ">", "t", "<", "/", "p", ">">>
FRAGMENT_UL ==
    <<"<", "u", "l", ">", "\n", "<", "l", "i", ">", "a", "<", "/", "l", "i",
      ">", "\n", "<", "l", "i", ">", "b", "<", "/", "l", "i", ">", "\n", "<",
      "/", "u", "l", ">">>
FRAGMENT_SECTION ==
    <<"<", "s", "e", "c", "t", "i", "o", "n", ">", "<", "p", ">", "t", "<",
      "/", "p", ">", "<", "/", "s", "e", "c", "t", "i", "o", "n", ">">>
\* A nested <section> followed by more content.
FRAGMENT_SECTION_THEN_P ==
    <<"<", "s", "e", "c", "t", "i", "o", "n", ">", "a", "<", "/", "s", "e",
      "c", "t", "i", "o", "n", ">", "<", "p", ">", "u", "<", "/", "p", ">">>

PLAIN_RULES == {RULE_CONTAINER, RULE_P}
PSEUDO_RULES == {RULE_HOVER, RULE_NTH_CHILD, RULE_BEFORE, RULE_FOCUS_EMPTY}
THEME_RULES == PLAIN_RULES \cup PSEUDO_RULES

RuleSeqs == UNION {[1..n -> THEME_RULES] : n \in 0..MaxRules}

\* A theme: its rules, after a :root block or without one.
Themes == {[root |-> r, rules |-> rs] : r \in BOOLEAN, rs \in RuleSeqs}

RenderTheme(th) == (IF th.root THEN THEME_ROOT ELSE <<>>) \o Concat(th.rules)

Fragments == {<<>>, FRAGMENT_P, FRAGMENT_UL, FRAGMENT_SECTION, FRAGMENT_SECTION_THEN_P}

(***************************************************************************)
(* _extract_pseudo_rules on its own: one call on a sheet whose rules may    *)
(* hold the text of a pseudo-construct in a body as well.                  *)
(***************************************************************************)
\* q{content:":hover"}: no pseudo-construct in the selector, one in the body.
RULE_CONTENT_HOVER ==
    <<"q", "{", "c", "o", "n", "t", "e", "n", "t", ":", "\"", ":", "h", "o",
      "v", "e", "r", "\"", "}">>

ExtractedSheets ==
    {[root |-> r, rules |-> rs] :
        r \in BOOLEAN,
        rs \in UNION {[1..n -> THEME_RULES \cup {RULE_CONTENT_HOVER}] : n \in 0..MaxRules}}

InitPseudo ==
    /\ pc = "idle"
    /\ ListsIdle
    /\ TokIdle
    /\ ResIdle
    /\ PubIdle
    /\ CacheIdle
    /\ ArtIdle

\* Lines 169-182: one call of _extract_pseudo_rules(css).
ExtractPseudoRules ==
    /\ pc = "idle"
    /\ \E th \in ExtractedSheets :
        /\ themeCss' = RenderTheme(th)
        /\ pseudoCss' = _extract_pseudo_rules(RenderTheme(th))
    /\ pc' = "extracted"
    /\ UNCHANGED <<fragment, fullHtml, inlined, published, listVars, tokVars,
                   resVars, cacheVars, artVars>>

NextPseudo == ExtractPseudoRules

SpecPseudo == InitPseudo /\ [][NextPseudo]_vars

(***************************************************************************)
(* markdown_to_wechat_html as a state machine: apply_theme_for_publish up   *)
(* to the call of the inliner, the inliner's return or failure, the rest   *)
(* of the function, and _inject_list_prefixes on its result; and           *)
(* apply_theme_for_preview.                                                *)
(***************************************************************************)
InitPublish ==
    /\ pc = "idle"
    /\ ListsIdle
    /\ TokIdle
    /\ ResIdle
    /\ PubIdle
    /\ CacheIdle
    /\ ArtIdle

\* Lines 213-236: up to inliner.inline(full_html).
PublishBegin ==
    /\ pc = "idle"
    /\ \E th \in Themes, h \in Fragments :
        /\ themeCss' = RenderTheme(th)
        /\ fragment' = h
        /\ pseudoCss' = _extract_pseudo_rules(CombinedCss(RenderTheme(th)))
        /\ fullHtml' = FullHtml(RenderTheme(th), h)
    /\ pc' = "inlining"
    /\ UNCHANGED <<inlined, published, listVars, tokVars, resVars, cacheVars, artVars>>

\* Line 236: the inliner returns the inlined document.
InlinerReturns ==
    /\ pc = "inlining"
    /\ \E dyn \in BOOLEAN : inlined' = Inline(fullHtml, dyn)
    /\ pc' = "inlined"
    /\ UNCHANGED <<themeCss, fragment, pseudoCss, fullHtml, published,
                   listVars, tokVars, resVars, cacheVars, artVars>>

\* Line 236: the inliner returns a document in which the pattern of line 240
\* finds no container (the case lines 247-248 provide for).
InlinerReturnsRequoted ==
    /\ pc = "inlining"
    /\ \E dyn \in BOOLEAN : inlined' = Requoted(Inline(fullHtml, dyn))
    /\ pc' = "inlined"
    /\ UNCHANGED <<themeCss, fragment, pseudoCss, fullHtml, published,
                   listVars, tokVars, resVars, cacheVars, artVars>>

\* Line 236: the inliner raises (css_inline.InlineError); the call is not
\* inside a try block, so the exception leaves apply_theme_for_publish.
InlinerRaises ==
    /\ pc = "inlining"
    /\ pc' = "raised"
    /\ UNCHANGED <<pubVars, listVars, tokVars, resVars, cacheVars, artVars>>

\* Lines 238-254.
PublishFinish ==
    /\ pc = "inlined"
    /\ published' = WithPseudoStyle(pseudoCss, ExtractSection(inlined, fragment))
    /\ pc' = "published"
    /\ UNCHANGED <<themeCss, fragment, pseudoCss, fullHtml, inlined,
                   listVars, tokVars, resVars, cacheVars, artVars>>

\* Line 319: result = _inject_list_prefixes(result).
InjectListPrefixes ==
    /\ pc = "published"
    /\ html' = published
    /\ result' = _inject_list_prefixes(published)
    /\ pc' = "converted"
    /\ UNCHANGED <<md, pubVars, tokVars, resVars, cacheVars, artVars>>

\* Lines 193-200: apply_theme_for_preview.
ApplyThemeForPreview ==
    /\ pc = "idle"
    /\ \E th \in Themes, h \in Fragments :
        /\ themeCss' = RenderTheme(th)
        /\ fragment' = h
        /\ published' = apply_theme_for_preview(h, RenderTheme(th))
    /\ pc' = "previewed"
    /\ UNCHANGED <<pseudoCss, fullHtml, inlined, listVars, tokVars, resVars, cacheVars, artVars>>

NextPublish ==
    \/ PublishBegin
    \/ InlinerReturns
    \/ InlinerReturnsRequoted
    \/ InlinerRaises
    \/ PublishFinish
    \/ InjectListPrefixes
    \/ ApplyThemeForPreview

SpecPublish == InitPublish /\ [][NextPublish]_vars

(***************************************************************************)
(* Claims about the publish path.                                          *)
(***************************************************************************)
\* The sheet holds a rule the extractor recognises as a pseudo rule.
HasPseudoRule(css) == _extract_pseudo_rules(css) # <<>>

StartsWith(p, s) == MatchAt(p, s, 1)

\* C10: in publish mode the pseudo rules are taken out of the CSS handed to the
\* inliner: the <style> element of the document the inliner receives holds no
\* rule the extractor recognises, so the inliner's output is the same whatever
\* its selector engine makes of pseudo-constructs, and the extracted rules
\* stand in the <style> block before the returned fragment.
C10_PseudoRulesNotHandedToInliner ==
    /\ pc \in {"inlining", "inlined", "published"} => ~HasPseudoRule(StyleOf(fullHtml))
    /\ pc \in {"inlined", "published"} =>
           inlined \in {Inline(fullHtml, FALSE), Requoted(Inline(fullHtml, FALSE))}
    /\ (pc = "published" /\ Strip(pseudoCss) # <<>>) =>
           StartsWith(STYLE_OPEN \o pseudoCss \o STYLE_CLOSE, published)

EndsWith(p, s) == MatchAt(p, s, Len(s) - Len(p) + 1)

\* The rules of a well-formed sheet whose selector holds a pseudo-construct and
\* whose body is not empty, each written `selector {body}`, one per line.
RECURSIVE PseudoLines(_)
PseudoLines(rules) ==
    IF rules = <<>> THEN <<>>
    ELSE (IF FirstPseudo(rules[1].selector, 1) # 0 /\ rules[1].body # <<>>
          THEN <<rules[1].selector \o <<" ", "{">> \o rules[1].body \o <<"}">>>>
          ELSE <<>>) \o PseudoLines(Tail(rules))

ExpectedPseudoCss(css) == Join(PseudoLines(RulesFrom(css, 1)))

\* C11: the publish output begins with a <style> block exactly when the theme
\* has a pseudo rule with a non-empty body; the block then holds exactly those
\* rules and the section#wenyan container follows it; without such a rule the
\* output is the container alone. The preview output carries the theme CSS
\* unmodified, and no pseudo rule is extracted for it.
C11_StyleBlockIffPseudoRules ==
    /\ pc \in {"published", "converted"} =>
           LET out == IF pc = "published" THEN published ELSE result
               expected == ExpectedPseudoCss(themeCss)
           IN /\ EndsWith(SECTION_CLOSE, out)
              /\ IF expected # <<>>
                 THEN StartsWith(STYLE_OPEN \o expected \o STYLE_CLOSE \o <<"\n">>
                                     \o SECTION_WENYAN, out)
                 ELSE StartsWith(SECTION_WENYAN, out)
    /\ pc = "previewed" =>
           /\ pseudoCss = <<>>
           /\ StyleOf(published) = <<"\n">> \o themeCss \o <<"\n">>

\* Reached: a theme with a :hover rule and an empty :focus rule was published;
\* the converted output begins with the <style> block of the :hover rule.
C11_Witness ==
    /\ pc = "converted"
    /\ themeCss = RULE_HOVER \o RULE_FOCUS_EMPTY
    /\ StartsWith(STYLE_OPEN \o ExpectedPseudoCss(RULE_HOVER) \o STYLE_CLOSE, result)

\* The inliner's output holds a match of the pattern of line 240.
ContainerMatched(doc) ==
    LET a == Find(SECTION_WENYAN, doc, 1)
        g == IF a = 0 THEN 0 ELSE FindChar({">"}, doc, a + Len(SECTION_WENYAN))
    IN g # 0 /\ Find(SECTION_CLOSE, doc, g + 1) # 0

\* C13: when the inliner's output holds no matching container, the returned
\* fragment is the original fragment wrapped in <section id="wenyan">, and in
\* every case the call returns a fragment: no failure leaves
\* apply_theme_for_publish.
C13_FallbackNeverFails ==
    /\ pc # "raised"
    /\ (pc = "published" /\ ~ContainerMatched(inlined)) =>
           EndsWith(SECTION_OPEN \o fragment \o SECTION_CLOSE, published)
    /\ pc = "published" =>
           /\ Contains(SECTION_WENYAN, published)
           /\ EndsWith(SECTION_CLOSE, published)

(***************************************************************************)
(* The theme store (html_convert.py 11-55): THEMES_DIR, _theme_cache,      *)
(* load_themes and _get_theme_css. A directory and a dict are sequences of *)
(* (stem, text) pairs, in the order glob yields the files and in insertion *)
(* order.                                                                  *)
(***************************************************************************)
DEFAULT == "default"

\* Lines 36-38: the loop of load_themes over the files still to read.
RECURSIVE ReadFiles(_, _)
ReadFiles(cache, files) ==
    IF files = <<>> THEN cache
    ELSE ReadFiles(Put(cache, files[1][1], files[1][2]), Tail(files))

\* Lines 33-38: _theme_cache after load_themes().
load_themes(dir) == ReadFiles(<<>>, dir)

\* A reader that reloads the themes on every call.
LoadedIfEmpty_Always(cache, dir) == load_themes(dir)

\* Lines 53-54 and 43-44: `if not _theme_cache: load_themes()`.
LoadedIfEmpty(cache, dir) == IF cache = <<>> THEN load_themes(dir) ELSE cache

\* A lookup without the inner .get("default", "").
_get_theme_css_NoFallback(cache, theme_id) == Get(cache, theme_id, <<>>)

\* Line 55: _theme_cache.get(theme_id, _theme_cache.get("default", "")).
_get_theme_css(cache, theme_id) == Get(cache, theme_id, Get(cache, DEFAULT, <<>>))

\* Lines 213-254 with the inliner's choice dyn: apply_theme_for_publish.
apply_theme_for_publish(html_, css, dyn) ==
    WithPseudoStyle(_extract_pseudo_rules(CombinedCss(css)),
                    ExtractSection(Inline(FullHtml(css, html_), dyn), html_))

\* Lines 317-320: markdown_to_wechat_html after markdown_to_html.
markdown_to_wechat_html(html_, css, dyn) ==
    _inject_list_prefixes(apply_theme_for_publish(html_, css, dyn))

(***************************************************************************)
(* Theme directories and the ids asked for.                                *)
(***************************************************************************)
PURPLE == "purple"
\* Lines 17-30: the display names of the ids of the model; the name of
\* "default" is written by its code points.
THEME_NAMES == <<<<"default", "U+9ED8U+8BA4">>, <<PURPLE, "Purple">>>>
\* sorted() over the ids of the model.
SORTED_IDS == <<"default", PURPLE>>

\* Lines 45-48: the list of {"id", "name"} over sorted(_theme_cache.keys()).
list_themes(cache) ==
    LET ids == SelectSeq(SORTED_IDS, LAMBDA tid : tid \in Keys(cache))
    IN [k \in 1..Len(ids) |-> [id |-> ids[k], name |-> Get(THEME_NAMES, ids[k], ids[k])]]
NONEXISTENT == "nonexistent"
THEME_STEMS == {DEFAULT, PURPLE}
ThemeIds == THEME_STEMS \cup {NONEXISTENT}
ThemeTexts == {RULE_HOVER, RULE_CONTAINER \o RULE_NTH_CHILD}

\* Every directory: some of the stems, each with a text, in any order.
ThemeDirs ==
    UNION {UNION {{[k \in 1..Len(order) |-> <<order[k], text[order[k]]>>] :
                      text \in [S -> ThemeTexts]} : order \in Perms(S)} :
           S \in SUBSET THEME_STEMS}

(***************************************************************************)
(* The theme store in a single thread: an explicit load_themes call (as at *)
(* start-up, main.py 58), a lookup, a preview and a publish conversion.    *)
(***************************************************************************)
InitThemes ==
    /\ pc = "idle"
    /\ ListsIdle
    /\ TokIdle
    /\ ResIdle
    /\ PubIdle
    /\ themesDir \in ThemeDirs
    /\ themeCache = <<>>
    /\ themeId = ""
    /\ loading = FALSE
    /\ pending = <<>>
    /\ oldCache = <<>>
    /\ seenCache = <<>>
    /\ listed = <<>>
    /\ ArtIdle

LoadThemes ==
    /\ pc = "idle"
    /\ themeCache' = load_themes(themesDir)
    /\ UNCHANGED <<pc, themesDir, themeId, loading, pending, oldCache, seenCache, listed,
                   listVars, tokVars, resVars, pubVars, artVars>>

GetThemeCss ==
    /\ pc = "idle"
    /\ \E id \in ThemeIds :
        /\ themeId' = id
        /\ themeCache' = LoadedIfEmpty(themeCache, themesDir)
        /\ themeCss' = _get_theme_css(themeCache', id)
    /\ pc' = "looked"
    /\ UNCHANGED <<fragment, pseudoCss, fullHtml, inlined, published, themesDir,
                   loading, pending, oldCache, seenCache, listed, listVars, tokVars,
                   resVars, artVars>>

\* main.py 349-350: the preview of an article with a theme id.
PreviewWithTheme ==
    /\ pc = "idle"
    /\ \E id \in ThemeIds, h \in Fragments :
        /\ themeId' = id
        /\ fragment' = h
        /\ themeCache' = LoadedIfEmpty(themeCache, themesDir)
        /\ themeCss' = _get_theme_css(themeCache', id)
        /\ published' = apply_theme_for_preview(h, themeCss')
    /\ pc' = "previewed"
    /\ UNCHANGED <<pseudoCss, fullHtml, inlined, themesDir, loading, pending,
                   oldCache, seenCache, listed, listVars, tokVars, resVars, artVars>>

\* Lines 311-320: markdown_to_wechat_html with a theme id.
PublishWithTheme ==
    /\ pc = "idle"
    /\ \E id \in ThemeIds, h \in Fragments, dyn \in BOOLEAN :
        /\ themeId' = id
        /\ fragment' = h
        /\ themeCache' = LoadedIfEmpty(themeCache, themesDir)
        /\ themeCss' = _get_theme_css(themeCache', id)
        /\ published' = apply_theme_for_publish(h, themeCss', dyn)
        /\ result' = _inject_list_prefixes(published')
    /\ pc' = "converted"
    /\ UNCHANGED <<md, html, pseudoCss, fullHtml, inlined, themesDir, loading,
                   pending, oldCache, seenCache, listed, tokVars, resVars, artVars>>

NextThemes == LoadThemes \/ GetThemeCss \/ PreviewWithTheme \/ PublishWithTheme

SpecThemes == InitThemes /\ [][NextThemes]_vars

(***************************************************************************)
(* Claims about the theme store.                                           *)
(***************************************************************************)
Stems(dir) == {dir[k][1] : k \in 1..Len(dir)}

\* The text of default.css, or "" when the directory has no such file.
DefaultText(dir) ==
    IF DEFAULT \in Stems(dir)
    THEN dir[CHOOSE k \in 1..Len(dir) : dir[k][1] = DEFAULT][2]
    ELSE <<>>

ListThemes ==
    /\ pc = "idle"
    /\ themeCache' = LoadedIfEmpty(themeCache, themesDir)
    /\ listed' = list_themes(themeCache')
    /\ pc' = "listed"
    /\ UNCHANGED <<themesDir, themeId, loading, pending, oldCache, seenCache,
                   listVars, tokVars, resVars, pubVars, artVars>>

\* The call has returned and its results are dropped; the cache stays.
CallReturns ==
    /\ pc \in {"looked", "previewed", "converted", "listed"}
    /\ pc' = "idle"
    /\ themeId' = ""
    /\ themeCss' = <<>>
    /\ fragment' = <<>>
    /\ published' = <<>>
    /\ result' = <<>>
    /\ listed' = <<>>
    /\ UNCHANGED <<md, html, pseudoCss, fullHtml, inlined, themesDir, themeCache,
                   loading, pending, oldCache, seenCache, tokVars, resVars, artVars>>

\* Line 11: the files of THEMES_DIR are changed on disk.
DirectoryChanges ==
    /\ pc = "idle"
    /\ themesDir' \in ThemeDirs \ {themesDir}
    /\ UNCHANGED <<pc, themeCache, themeId, loading, pending, oldCache, seenCache,
                   listed, listVars, tokVars, resVars, pubVars, artVars>>

NextCache ==
    \/ LoadThemes
    \/ GetThemeCss
    \/ ListThemes
    \/ PreviewWithTheme
    \/ PublishWithTheme
    \/ CallReturns
    \/ DirectoryChanges

SpecCache == InitThemes /\ [][NextCache]_vars

\* C23: the cache is read-only once it holds a theme: a step that changes it
\* is an explicit load_themes call, or a lookup, list, preview or publish
\* call that found it empty, and it then holds the themes of the directory;
\* no lookup, list, preview or publish call changes a cache that holds a
\* theme, whatever has become of the directory.
C23_CacheReadOnlyOnceLoaded ==
    [][/\ themeCache' # themeCache =>
             /\ LoadThemes \/ (themeCache = <<>> /\ pc = "idle" /\ pc' # "idle")
             /\ themeCache' = load_themes(themesDir)
       /\ (themeCache # <<>> /\ ~LoadThemes) => themeCache' = themeCache]_vars

\* Reached: the cache was loaded, the directory changed, and a publish
\* conversion ran on the cache as it was.
C23_Witness ==
    /\ pc = "converted"
    /\ themeCache # <<>>
    /\ themeCache # load_themes(themesDir)
    /\ load_themes(themesDir) # <<>>

(***************************************************************************)
(* The theme store with a reader running while load_themes reloads the     *)
(* cache in another thread. load_themes is split at its dict operations:   *)
(* clear() (line 35) and one assignment per file (line 38); the reader is  *)
(* split between its test of the cache (line 53) and its lookup (line 55). *)
(* The cache starts as the complete load of an earlier directory.          *)
(***************************************************************************)
InitReload ==
    /\ pc = "idle"
    /\ ListsIdle
    /\ TokIdle
    /\ ResIdle
    /\ PubIdle
    /\ themesDir \in ThemeDirs
    /\ themeCache \in {load_themes(dir) : dir \in ThemeDirs}
    /\ themeId = ""
    /\ loading = FALSE
    /\ pending = <<>>
    /\ oldCache = themeCache
    /\ seenCache = <<>>
    /\ listed = <<>>
    /\ ArtIdle

\* Line 35: _theme_cache.clear(), and the glob of line 36 begins.
ReloadBegin ==
    /\ ~loading
    /\ loading' = TRUE
    /\ oldCache' = themeCache
    /\ themeCache' = <<>>
    /\ pending' = themesDir
    /\ UNCHANGED <<pc, themesDir, themeId, seenCache, listed,
                   listVars, tokVars, resVars, pubVars, artVars>>

\* Lines 36-38: one file is read and stored.
ReloadFile ==
    /\ loading
    /\ pending # <<>>
    /\ themeCache' = Put(themeCache, pending[1][1], pending[1][2])
    /\ pending' = Tail(pending)
    /\ UNCHANGED <<pc, themesDir, themeId, loading, oldCache, seenCache, listed,
                   listVars, tokVars, resVars, pubVars, artVars>>

\* Line 36: the glob is exhausted, load_themes returns.
ReloadEnd ==
    /\ loading
    /\ pending = <<>>
    /\ loading' = FALSE
    /\ UNCHANGED <<pc, themesDir, themeCache, themeId, pending, oldCache, seenCache, listed,
                   listVars, tokVars, resVars, pubVars, artVars>>

\* Lines 53-54 in the reader: the test of the cache, and the reader's own
\* load_themes() when it finds the cache empty.
ReaderCheck ==
    /\ pc = "idle"
    /\ \E id \in ThemeIds : themeId' = id
    /\ themeCache' = LoadedIfEmpty(themeCache, themesDir)
    /\ pc' = "checked"
    /\ UNCHANGED <<themesDir, loading, pending, oldCache, seenCache, listed,
                   listVars, tokVars, resVars, pubVars, artVars>>

\* Line 55 in the reader: the lookup.
ReaderGet ==
    /\ pc = "checked"
    /\ seenCache' = themeCache
    /\ themeCss' = _get_theme_css(themeCache, themeId)
    /\ pc' = "looked"
    /\ UNCHANGED <<fragment, pseudoCss, fullHtml, inlined, published, themesDir,
                   themeCache, themeId, loading, pending, oldCache, listed,
                   listVars, tokVars, resVars, artVars>>

\* The reader's call has returned; the next call may begin.
ReaderReturn ==
    /\ pc = "looked"
    /\ pc' = "idle"
    /\ UNCHANGED <<cacheVars, listVars, tokVars, resVars, pubVars, artVars>>

NextReload ==
    \/ ReloadBegin
    \/ ReloadFile
    \/ ReloadEnd
    \/ ReaderCheck
    \/ ReaderGet
    \/ ReaderReturn

SpecReload == InitReload /\ [][NextReload]_vars

\* C14: a reload is atomic for readers: the cache a lookup finds is the
\* complete mapping from before the reload or the complete mapping of the
\* directory, and a theme that is in both is never answered with anything
\* but its own text.
C14_ReloadAtomic ==
    pc = "looked" =>
        /\ seenCache \in {oldCache, load_themes(themesDir)}
        /\ (themeId \in Keys(oldCache) /\ themeId \in Stems(themesDir)) =>
               themeCss \in {Get(oldCache, themeId, <<>>),
                             Get(load_themes(themesDir), themeId, <<>>)}


\* The start of a <section> open tag.
SECTION_TAG == <<"<", "s", "e", "c", "t", "i", "o", "n">>

\* The position of the </section> that closes the section open at position i
\* with `depth` sections open around it; 0 when there is none.
RECURSIVE MatchingClose(_, _, _)
MatchingClose(doc, i, depth) ==
    LET o == Find(SECTION_TAG, doc, i)
        c == Find(SECTION_CLOSE, doc, i)
    IN IF c = 0 THEN 0
       ELSE IF o # 0 /\ o < c THEN MatchingClose(doc, o + 1, depth + 1)
       ELSE IF depth = 1 THEN c
       ELSE MatchingClose(doc, c + 1, depth - 1)

\* The container of a document: from its section#wenyan open tag to the
\* close tag that matches it.
WholeContainer(doc) ==
    LET a == Find(SECTION_WENYAN, doc, 1)
        e == MatchingClose(doc, a + 1, 1)
    IN SubSeq(doc, a, e + Len(SECTION_CLOSE) - 1)

\* C21: the fragment apply_theme_for_publish returns is the whole container
\* of the inlined document, from the section#wenyan open tag to that
\* container's own close tag, all the author content in it, also when the
\* author content holds <section> elements; none of the html/head/body
\* scaffolding is in it.
C21_WholeContainerReturned ==
    (pc = "published" /\ ContainerMatched(inlined)) =>
        /\ EndsWith(WholeContainer(inlined), published)
        /\ ~Contains(BODY_OPEN, published)
        /\ ~Contains(BODY_CLOSE, published)

(***************************************************************************)
(* Claims about _extract_pseudo_rules.                                      *)
(***************************************************************************)
\* C20: a rule is emitted, as `selector {body}`, exactly when its selector
\* holds one of ::before, ::after, :nth-child, :hover, :focus and its body is
\* not empty; of a rule whose selector holds none of them nothing is emitted,
\* whatever its body or the rules next to it hold.
C20_EmittedIffPseudoInSelector ==
    pc = "extracted" => pseudoCss = ExpectedPseudoCss(themeCss)


(***************************************************************************)
(* publish_article (main.py 283-323) with article.mark_published           *)
(* (article.py 133-149) and WechatAPI.create_draft (wechat.py 76-113).      *)
(* The handlers are coroutines on one event loop: a call runs without       *)
(* interruption from one `await` to the next, and other calls run while it  *)
(* waits. An Optional value is <<>> for None and <<v>> for the value v.     *)
(***************************************************************************)
MaxCallers == 2
MaxDrafts == 2

Callers == 1..MaxCallers
\* The ids asked for: an article of the table and an id no row has.
ARTICLE == "article"
NO_ARTICLE == "missing"
ArticleIds == {ARTICLE, NO_ARTICLE}

\* article.py 87-99: the row of the id, or None.
get_article(rows, article_id) ==
    IF article_id \in Keys(rows) THEN <<Get(rows, article_id, <<>>)>> ELSE <<>>

\* A mark_published that stores nothing.
mark_published_NoUpdate(rows, article_id, draft_media_id, now) == rows

\* article.py 133-149: UPDATE articles SET published_at = ?, draft_media_id = ?
\* WHERE id = ?, committed.
mark_published(rows, article_id, draft_media_id, now) ==
    [k \in 1..Len(rows) |->
        IF rows[k][1] = article_id
        THEN <<article_id, [published_at |-> <<now>>, draft_media_id |-> <<draft_media_id>>]>>
        ELSE rows[k]]

\* main.py 290, 294, 323: the results with success False.
Failure == [success |-> FALSE, draft_media_id |-> <<>>]
\* main.py 320.
Success(draft_media_id) == [success |-> TRUE, draft_media_id |-> <<draft_media_id>>]

NotCalling == [at |-> "idle", article_id |-> "", draft_media_id |-> <<>>, ret |-> <<>>]

\* The table when the server starts: the article never published, or
\* published before (at time 0, as draft 0).
InitialRows ==
    {<<<<ARTICLE, [published_at |-> <<>>, draft_media_id |-> <<>>]>>>>,
     <<<<ARTICLE, [published_at |-> <<0>>, draft_media_id |-> <<0>>]>>>>}

InitArticles ==
    /\ pc = "idle"
    /\ ListsIdle
    /\ TokIdle
    /\ ResIdle
    /\ PubIdle
    /\ CacheIdle
    /\ wechatApi \in BOOLEAN
    /\ articles \in InitialRows
    /\ clock = 1
    /\ drafts = {}
    /\ callers = [c \in Callers |-> NotCalling]

Returned(c, r) == callers' = [callers EXCEPT ![c].at = "returned", ![c].ret = <<r>>]
Awaits(c, next) == callers' = [callers EXCEPT ![c].at = next]

\* main.py 289-299: the call up to its first await: the two early returns,
\* get_base_url() and the call of convert_local_images_to_wechat.
PublishArticle(c) ==
    /\ callers[c].at = "idle"
    /\ \E id \in ArticleIds :
        IF ~wechatApi \/ get_article(articles, id) = <<>>
        THEN callers' = [callers EXCEPT ![c] =
                            [NotCalling EXCEPT !.at = "returned", !.article_id = id,
                                               !.ret = <<Failure>>]]
        ELSE callers' = [callers EXCEPT ![c] =
                            [NotCalling EXCEPT !.at = "images", !.article_id = id]]
    /\ UNCHANGED <<pc, wechatApi, articles, clock, drafts,
                   listVars, tokVars, resVars, pubVars, cacheVars>>

\* main.py 299-301: convert_local_images_to_wechat returns, or raises.
ImagesConverted(c) ==
    /\ callers[c].at = "images"
    /\ \/ Awaits(c, "cover")
       \/ Returned(c, Failure)
    /\ UNCHANGED <<pc, wechatApi, articles, clock, drafts,
                   listVars, tokVars, resVars, pubVars, cacheVars>>

\* main.py 302-307: the cover image is downloaded, or the request raises.
CoverDownloaded(c) ==
    /\ callers[c].at = "cover"
    /\ \/ Awaits(c, "thumb")
       \/ Returned(c, Failure)
    /\ UNCHANGED <<pc, wechatApi, articles, clock, drafts,
                   listVars, tokVars, resVars, pubVars, cacheVars>>

\* main.py 307-311: upload_thumb returns a media id, or raises.
ThumbUploaded(c) ==
    /\ callers[c].at = "thumb"
    /\ \/ Awaits(c, "draft")
       \/ Returned(c, Failure)
    /\ UNCHANGED <<pc, wechatApi, articles, clock, drafts,
                   listVars, tokVars, resVars, pubVars, cacheVars>>

\* wechat.py 110-111 and main.py 322-323: create_draft raises (the answer
\* holds no media_id, or the request failed).
DraftFails(c) ==
    /\ callers[c].at = "draft"
    /\ Returned(c, Failure)
    /\ UNCHANGED <<pc, wechatApi, articles, clock, drafts,
                   listVars, tokVars, resVars, pubVars, cacheVars>>

\* wechat.py 103-113 and main.py 311-315: the draft is created in the draft
\* box and create_draft returns its media id; the client is closed (an await)
\* before the call goes on.
DraftCreated(c) ==
    /\ callers[c].at = "draft"
    /\ Cardinality(drafts) < MaxDrafts
    /\ LET draft_media_id == Cardinality(drafts) + 1
       IN /\ drafts' = drafts \cup {draft_media_id}
          /\ callers' = [callers EXCEPT ![c].at = "mark",
                                         ![c].draft_media_id = <<draft_media_id>>]
    /\ UNCHANGED <<pc, wechatApi, articles, clock,
                   listVars, tokVars, resVars, pubVars, cacheVars>>

\* main.py 318-320: mark_published stores the media id and the call returns it.
MarkPublished(c) ==
    /\ callers[c].at = "mark"
    /\ articles' = mark_published(articles, callers[c].article_id,
                                  callers[c].draft_media_id[1], clock)
    /\ Returned(c, Success(callers[c].draft_media_id[1]))
    /\ clock' = clock + 1
    /\ UNCHANGED <<pc, wechatApi, drafts, listVars, tokVars, resVars, pubVars, cacheVars>>

\* main.py 318, 322-323: mark_published raises before its commit.
MarkPublishedRaises(c) ==
    /\ callers[c].at = "mark"
    /\ Returned(c, Failure)
    /\ UNCHANGED <<pc, wechatApi, articles, clock, drafts,
                   listVars, tokVars, resVars, pubVars, cacheVars>>

\* The result was handed to the client; the next call may begin.
CallEnds(c) ==
    /\ callers[c].at = "returned"
    /\ callers' = [callers EXCEPT ![c] = NotCalling]
    /\ UNCHANGED <<pc, wechatApi, articles, clock, drafts,
                   listVars, tokVars, resVars, pubVars, cacheVars>>

NextArticles ==
    \E c \in Callers :
        \/ PublishArticle(c)
        \/ ImagesConverted(c)
        \/ CoverDownloaded(c)
        \/ ThumbUploaded(c)
        \/ DraftFails(c)
        \/ DraftCreated(c)
        \/ MarkPublished(c)
        \/ MarkPublishedRaises(c)
        \/ CallEnds(c)

SpecArticles == InitArticles /\ [][NextArticles]_vars

\* The call of c returns in this step.
Returns(c) == callers[c].at # "returned" /\ callers'[c].at = "returned"

\* C24: an article is marked as published only after its draft was created:
\* a call returns success=true only after create_draft returned the media id
\* of a draft of the draft box, with that id, and the article then holds that
\* id and the time of the call; a call that returns success=false returns no
\* draft_media_id and leaves published_at and draft_media_id of every article
\* as they were (the API not configured, the article missing, a step up to
\* and including the draft creation failed); and the table changes in no
\* other step.
C24_PublishedOnlyAfterDraft ==
    [][/\ \A c \in Callers :
             Returns(c) =>
                 LET r == callers'[c].ret[1]
                 IN IF r.success
                    THEN /\ callers[c].at = "mark"
                         /\ r.draft_media_id = callers[c].draft_media_id
                         /\ Len(r.draft_media_id) = 1
                         /\ r.draft_media_id[1] \in drafts
                         /\ get_article(articles', callers[c].article_id) =
                                <<[published_at |-> <<clock>>,
                                   draft_media_id |-> r.draft_media_id]>>
                    ELSE /\ r.draft_media_id = <<>>
                         /\ articles' = articles
       /\ articles' # articles => \E c \in Callers : Returns(c) /\ callers'[c].ret[1].success
      ]_vars

\* Reached: one call was answered with success and the id of the second
\* draft, which the article holds, and another call with a failure.
C24_Witness ==
    /\ callers[1].at = "returned"
    /\ callers[1].ret = <<Success(2)>>
    /\ callers[2].at = "returned"
    /\ callers[2].ret = <<Failure>>
    /\ get_article(articles, ARTICLE)[1].draft_media_id = <<2>>
    /\ drafts = {1, 2}

====
